---------------------------- MODULE Spec2Model ----------------------------
(***************************************************************************)
(* A model of the kohai backend (Vaalley/kohai): the tag submission        *)
(* handler createTags / processUserTags with its two collections, the      *)
(* IGDB token guard ensureValidIgdbToken, and the bad-word filter          *)
(* containsBadWords.                                                       *)
(*                                                                         *)
(* Strings that the code inspects character by character (tags) are        *)
(* sequences of one-character strings.  Time is the value of Date.now(),   *)
(* counted in minutes.                                                     *)
(***************************************************************************)
EXTENDS Integers, Sequences, FiniteSets, Bags, TLC

VARIABLES
    now,                \* Date.now(), in minutes
    userContributions,  \* the userContributions collection: a set of documents
    mediaTags,          \* the mediaTags collection: a set of documents
    lastResult,         \* the last createTags request: its HTTP status (0: none yet)
                        \* and, if it reached processUserTags, the arguments of
                        \* that call and how many documents it deleted, updated
                        \* and inserted
    accessToken,        \* env IGDB_ACCESS_TOKEN ("" when not set)
    expiresAt,          \* env IGDB_EXPIRES_AT as a number (-1 when not set)
    tokenRefreshPromise,\* the guard slot: a promise id, or NoPromise
    promises,           \* promise id -> the refresh it stands for: its status, the
                        \* caller that started it, the callers awaiting it in order
                        \* of their await, the expires_in of a successful response
    callers,            \* caller -> position inside ensureValidIgdbToken, what the
                        \* call returned, the promises it awaited, and how many
                        \* refreshes had settled when the call was made
    microtasks,         \* callers whose await a settled promise resumes, in order
    exchangeCalls,      \* number of credential-exchange calls (fetch) started
    bwInput,            \* the argument of containsBadWords
    bwResult,           \* its result, "true" or "false" ("none" before the call)
    searchCache,        \* the Map searchCache: its entries in insertion order
    gameCache,          \* the Map gameCache: its entries in insertion order
    fetching,           \* the search and getGame requests awaiting the catalog:
                        \* the bag of their handlers and cache keys
    lastReply,          \* the last response of search or getGame: its handler,
                        \* cache key, HTTP status and payload, and whether the
                        \* request called the catalog
    upstreamCalls,      \* number of catalog calls (fetch) started
    lastTags,           \* the last response of getTags: its HTTP status and the
                        \* tag counts it returned
    sessions,           \* the createTags requests in progress when submissions
                        \* interleave: session -> its position in the handler
                        \* and the values of its local variables
    tokenFile,          \* the contents of ./.igdb_token.json
    boot,               \* the connectIgdb call of the startup: its position and
                        \* the response of the token endpoint it received
    auth,               \* request -> what igdbAuth did with it: nothing yet, the
                        \* handler was called (next), or it answered itself
    users,              \* the users collection: a set of documents
    lastUserId,         \* the _id of the user document inserted last
    tokens,             \* the access tokens signed by login: their payloads
    promoting,          \* the promoteUser requests between their findOne and
                        \* their updateOne
    userReply,          \* the last response of deleteUser or promoteUser, with
                        \* the payload of the caller's token and the target
    env,                \* Deno.env: key -> whether it is set, and its value
    lastSetEnv,         \* the arguments of the last call of setEnv
    lastGetEnv,         \* the arguments and the result of the last call of getEnv
    main                \* the function main of the entry point: its position, the
                        \* state of the MongoDB connection, whether the catch of
                        \* the connections was entered, the closeApp calls that
                        \* await closeMongo, whether startServer was called,
                        \* whether the server listens, and the exit code

tagVars   == <<now, userContributions, mediaTags, lastResult>>
guardVars == <<accessToken, expiresAt, tokenRefreshPromise, promises, callers,
               microtasks, exchangeCalls>>
bwVars    == <<bwInput, bwResult>>
cacheVars == <<searchCache, gameCache, fetching, lastReply, upstreamCalls>>
readVars  == <<lastTags>>
txVars    == <<sessions>>
bootVars  == <<tokenFile, boot, main>>
authVars  == <<auth>>
userVars  == <<users, lastUserId, tokens, promoting, userReply>>
envVars   == <<env, lastSetEnv, lastGetEnv>>
extVars   == <<bootVars, authVars, userVars, envVars>>
vars      == <<tagVars, guardVars, bwVars, cacheVars, readVars, txVars, extVars>>

(***************************************************************************)
(* Bounds of the model.                                                    *)
(***************************************************************************)
MaxTime == 1
MaxReqTags == 4
NumCallers == 3
MaxGuardTime == 2
MaxTagLen == 4
MaxTags == 2

(***************************************************************************)
(* Sequence helpers.                                                       *)
(***************************************************************************)
Range(s) == {s[i] : i \in 1..Len(s)}

Min(a, b) == IF a < b THEN a ELSE b

Take(s, n) == SubSeq(s, 1, Min(n, Len(s)))

InjectiveSeqs(S, n) ==
    UNION {{s \in [1..k -> S] : \A i, j \in 1..k : i # j => s[i] # s[j]} : k \in 0..n}

\* a comparison of whole strings
IsWholeString(needle, hay) == needle = hay

\* Array.prototype.includes / String.prototype.includes on sequences
IsSubstring(needle, hay) ==
    \E i \in 0..(Len(hay) - Len(needle)) :
        \A j \in 1..Len(needle) : hay[i + j] = needle[j]

(***************************************************************************)
(* The bad-word filter (utils/badwords.ts).                                *)
(***************************************************************************)
LowerCaseLetters == <<"a", "b", "c", "d", "e", "f", "g", "h", "i", "j", "k", "l", "m", "n", "o", "p", "q", "r", "s", "t", "u", "v", "w", "x", "y", "z">>

UpperCaseLetters == <<"A", "B", "C", "D", "E", "F", "G", "H", "I", "J", "K", "L", "M", "N", "O", "P", "Q", "R", "S", "T", "U", "V", "W", "X", "Y", "Z">>

Digits == <<"0", "1", "2", "3", "4", "5", "6", "7", "8", "9">>

badWords == <<
    <<"n", "i", "g", "g", "e", "r">>,
    <<"f", "a", "g", "g", "o", "t">>,
    <<"k", "i", "k", "e">>,
    <<"c", "h", "i", "n", "k">>,
    <<"s", "p", "i", "c">>,
    <<"g", "o", "o", "k">>,
    <<"r", "a", "p", "e">>,
    <<"r", "a", "p", "i", "s", "t">> >>

\* no leetspeak table
keepChar(char) == char

\* leetMap[char] || char
leetMap(char) ==
    CASE char = "0" -> "o"
      [] char = "1" -> "i"
      [] char = "3" -> "e"
      [] char = "4" -> "a"
      [] char = "5" -> "s"
      [] char = "7" -> "t"
      [] char = "@" -> "a"
      [] char = "$" -> "s"
      [] char = "!" -> "i"
      [] char = "|" -> "i"
      [] OTHER -> char

LowerCaseOf ==
    [c \in Range(UpperCaseLetters) |->
        LowerCaseLetters[CHOOSE i \in 1..Len(UpperCaseLetters) : UpperCaseLetters[i] = c]]

\* a lowercasing that leaves every character as it is
keepCase(char) == char

\* String.prototype.toLowerCase, one character
toLowerCase(char) == IF char \in DOMAIN LowerCaseOf THEN LowerCaseOf[char] ELSE char

\* the characters the regular expression [^a-z0-9@!$|] keeps
KeptChars == Range(LowerCaseLetters) \cup Range(Digits) \cup {"@", "!", "$", "|"}

KeptByRegex(char) == char \in KeptChars

normalizeTag(tag) ==
    LET lowered  == [i \in 1..Len(tag) |-> toLowerCase(tag[i])]
        stripped == SelectSeq(lowered, KeptByRegex)
    IN  [i \in 1..Len(stripped) |-> leetMap(stripped[i])]

containsBadWords(tags) ==
    \E i \in 1..Len(tags) :
        \E b \in 1..Len(badWords) :
            IsSubstring(badWords[b], normalizeTag(tags[i]))

(***************************************************************************)
(* Requests to PUT /tags/:id (api/routes.ts) and their payloads.           *)
(***************************************************************************)
story   == <<"s", "t", "o", "r", "y">>
action  == <<"a", "c", "t", "i", "o", "n">>
western == <<"w", "e", "s", "t", "e", "r", "n">>
bandits == <<"b", "a", "n", "d", "i", "t", "s">>
r4p3    == <<"r", "4", "p", "3">>

TagPool == {story, action, western, bandits}

Users == {"A", "B"}

NoUser == "anonymous"

PathValues == {"rdr2", "gta5"}

Undefined == "undefined"

VIDEO_GAME == "video-game"

StringItem(s) == [type |-> "string", val |-> s]

NumberItem == [type |-> "number", val |-> <<>>]

\* payloads that exercise the filtering, trimming, de-duplication and rejections
SpecialPayloads ==
    { <<>>,
      <<NumberItem>>,
      <<StringItem(<<" ", " ">>)>>,
      <<StringItem(<<" ">> \o story \o <<" ">>), StringItem(story), NumberItem>>,
      <<StringItem(story), StringItem(r4p3)>> }

TagOrder == <<story, action, western, bandits>>

IndexIn(s, x) == CHOOSE i \in 1..Len(s) : s[i] = x

\* The payloads of distinct tags.  The order of the submitted tags decides the
\* outcome only when more tags are submitted than a user may keep: payloads of up
\* to three tags are taken in the order of TagOrder, longer ones in that order
\* rotated, so that each tag comes last in one of them.
TagPayloads ==
    {s \in InjectiveSeqs(TagPool, MaxReqTags) :
        \E r \in 0..(IF Len(s) > 3 THEN Len(TagOrder) - 1 ELSE 0) :
            \A i, j \in 1..Len(s) :
                i < j => ((IndexIn(TagOrder, s[i]) - 1 + r) % Len(TagOrder))
                            < ((IndexIn(TagOrder, s[j]) - 1 + r) % Len(TagOrder))}

Payloads ==
    {[i \in 1..Len(s) |-> StringItem(s[i])] : s \in TagPayloads} \cup SpecialPayloads

\* User A sends every payload; user B, whom the code treats no differently, a few
\* that share tags with A's.
OtherUserPayloads ==
    { <<StringItem(story)>>,
      <<StringItem(action), StringItem(bandits)>>,
      <<StringItem(story), StringItem(action), StringItem(western)>> }

Requests ==
    [sub : {"A"}, id : {"rdr2"}, json : {TRUE}, isArray : {TRUE}, tags : Payloads]
        \cup [sub : {"B"}, id : {"rdr2"}, json : {TRUE}, isArray : {TRUE},
              tags : OtherUserPayloads]
        \cup [sub : {"A"}, id : {"gta5"}, json : {TRUE}, isArray : {TRUE},
              tags : {<<StringItem(story)>>, <<StringItem(action), StringItem(bandits)>>}]
        \cup [sub : {NoUser}, id : {"rdr2"}, json : {TRUE}, isArray : {TRUE},
              tags : {<<StringItem(story)>>}]
        \cup [sub : {"A"}, id : {"rdr2"}, json : BOOLEAN, isArray : {FALSE},
              tags : {<<>>}]

\* the route is registered as '/:id': the only path parameter is named "id"
RouteParamName == "id"

\* context.req.param(name)
param(req, name) == IF name = RouteParamName THEN req.id ELSE Undefined

WhiteSpace == {" ", "\t", "\n"}

\* String.prototype.trim
RECURSIVE trim(_)
trim(s) ==
    IF s = <<>> THEN s
    ELSE IF Head(s) \in WhiteSpace THEN trim(Tail(s))
    ELSE IF s[Len(s)] \in WhiteSpace THEN trim(SubSeq(s, 1, Len(s) - 1))
    ELSE s

\* Array.from(new Set(array)): the first occurrence of each value, in order
RECURSIVE Dedupe(_)
Dedupe(s) ==
    IF s = <<>> THEN <<>>
    ELSE LET front == Dedupe(SubSeq(s, 1, Len(s) - 1))
             last  == s[Len(s)]
         IN  IF last \in Range(front) THEN front ELSE Append(front, last)

IsStringItem(item) == item.type = "string"

ItemValue(item) == item.val

NonEmpty(s) == Len(s) > 0

normalizedTags(tags) ==
    LET strings == SelectSeq(tags, IsStringItem)
        trimmed == [i \in 1..Len(strings) |-> trim(ItemValue(strings[i]))]
    IN  Dedupe(SelectSeq(trimmed, NonEmpty))

(***************************************************************************)
(* The document store: collection operations of the MongoDB driver.        *)
(***************************************************************************)
\* every order in which find() without a sort may return the documents
RECURSIVE FindOrders(_)
FindOrders(docs) ==
    IF docs = {} THEN {<<>>}
    ELSE UNION {{<<d>> \o s : s \in FindOrders(docs \ {d})} : d \in docs}

\* The unique index { userId, mediaSlug, mediaType, tag } (db/mongo.ts,
\* createIndexes) makes these four fields identify a document of
\* userContributions, and the collection is written by whole requests only: the
\* model takes them for the document's _id.
ObjectIdOf(d) == <<d.userId, d.mediaSlug, d.mediaType, d.tag>>

\* a store whose deleteMany removes nothing
deleteNothing(coll, ids) == coll

\* deleteMany({ _id: { $in: ids } })
deleteMany(coll, ids) == {d \in coll : ObjectIdOf(d) \notin ids}

\* a store whose updateMany changes nothing
updateNothing(coll, ids, t) == coll

\* updateMany({ _id: { $in: ids } }, { $set: { updated_at: t } })
updateMany(coll, ids, t) ==
    {IF ObjectIdOf(d) \in ids THEN [d EXCEPT !.updated_at = t] ELSE d : d \in coll}

\* a collection without the unique index: no document is rejected
NoUniqueIndex(coll, doc) == FALSE

\* the unique index rejects a second document with the same four fields
DuplicateKey(coll, doc) == \E d \in coll : ObjectIdOf(d) = ObjectIdOf(doc)

\* ordered insertMany: documents are inserted in order, the first duplicate key
\* stops the insertion and raises
RECURSIVE insertMany(_, _)
insertMany(coll, docs) ==
    IF docs = <<>> THEN [coll |-> coll, ok |-> TRUE]
    ELSE IF DuplicateKey(coll, Head(docs)) THEN [coll |-> coll, ok |-> FALSE]
    ELSE insertMany(coll \cup {Head(docs)}, Tail(docs))

\* aggregate [{$match: {mediaSlug, mediaType}}, {$group: {_id: '$tag'}}]
distinctTags(coll, slug) ==
    {d.tag : d \in {e \in coll : e.mediaSlug = slug /\ e.mediaType = VIDEO_GAME}}

(***************************************************************************)
(* processUserTags (handlers/igdb.ts).  Every document the code writes     *)
(* carries updated_at, so the fallback `updated_at ?? timestamp` of the    *)
(* comparator is never taken and the timestamp field is left out.          *)
(***************************************************************************)
\* the slice(0, 3) of finalContributions
MaxContributions == 3

\* the comparator turned round: timeA - timeB, oldest first
compareOldestFirst(contributionA, contributionB) ==
    contributionA.updated_at - contributionB.updated_at

\* the comparator of allRelevantContributions.sort: timeB - timeA
compareContributions(contributionA, contributionB) ==
    contributionB.updated_at - contributionA.updated_at

\* Array.prototype.sort is stable: an element goes before the first one that the
\* comparator orders after it
SortInsert(sorted, r) ==
    LET after == {i \in 1..Len(sorted) : compareContributions(sorted[i], r) > 0}
        k == IF after = {} THEN Len(sorted)
             ELSE (CHOOSE i \in after : \A j \in after : i <= j) - 1
    IN  SubSeq(sorted, 1, k) \o <<r>> \o SubSeq(sorted, k + 1, Len(sorted))

RECURSIVE SortContributions(_)
SortContributions(s) ==
    IF s = <<>> THEN <<>>
    ELSE SortInsert(SortContributions(SubSeq(s, 1, Len(s) - 1)), s[Len(s)])

\* existingTagsMap: tag -> the last existing document bearing it
existingTagsMap(existing) ==
    [t \in {existing[i].tag : i \in 1..Len(existing)} |->
        existing[CHOOSE i \in 1..Len(existing) :
                    /\ existing[i].tag = t
                    /\ \A j \in 1..Len(existing) : existing[j].tag = t => j <= i]]

\* the loop `for (const tag of tags)`: acc holds tagsToKeep, tagsToInsert (as
\* tags, in order) and tagsToUpdate (ids); a tag found in the map is deleted from it
RECURSIVE ClassifyTags(_, _, _)
ClassifyTags(tags, map, acc) ==
    IF tags = <<>> THEN acc
    ELSE LET tag == Head(tags) IN
         IF tag \in DOMAIN map
         THEN ClassifyTags(Tail(tags),
                           [t \in (DOMAIN map) \ {tag} |-> map[t]],
                           [acc EXCEPT !.tagsToUpdate = @ \cup {ObjectIdOf(map[tag])},
                                       !.tagsToKeep = Append(@, tag)])
         ELSE ClassifyTags(Tail(tags), map,
                           [acc EXCEPT !.tagsToInsert = Append(@, tag),
                                       !.tagsToKeep = Append(@, tag)])

\* existingContributions.filter(tagsToKeep.includes(tag)) followed by tagsToInsert
allRelevantContributions(existing, tagsToKeep, inserts) ==
    SelectSeq(existing, LAMBDA uc : uc.tag \in Range(tagsToKeep)) \o inserts

\* the sorted candidates without the slice
allSortedContributions(allRelevant) == SortContributions(allRelevant)

finalContributions(allRelevant) ==
    Take(SortContributions(allRelevant), MaxContributions)

\* the three writes processUserTags decides on, from finalTags
WritePlan(existing, tagsToUpdate, tagsToInsert, finalTags) ==
    [contributionsToDeleteIds |->
        {ObjectIdOf(existing[i]) :
            i \in {j \in 1..Len(existing) : existing[j].tag \notin finalTags}},
     contributionsToUpdateIds |->
        {ObjectIdOf(existing[i]) : i \in {j \in 1..Len(existing) :
            /\ existing[j].tag \in finalTags
            /\ ObjectIdOf(existing[j]) \in tagsToUpdate}},
     contributionsToInsertFinal |->
        SelectSeq(tagsToInsert, LAMBDA uc : uc.tag \in finalTags)]

NewContributions(userId, gameId, tags, time) ==
    [i \in 1..Len(tags) |->
        [userId |-> userId, mediaSlug |-> gameId, mediaType |-> VIDEO_GAME,
         tag |-> tags[i], updated_at |-> time]]

TagsOf(contributions) == {contributions[i].tag : i \in 1..Len(contributions)}

PlanFrom(existing, acc, tagsToInsert) ==
    WritePlan(existing, acc.tagsToUpdate, tagsToInsert,
              TagsOf(finalContributions(
                  allRelevantContributions(existing, acc.tagsToKeep, tagsToInsert))))

PlanFromClassified(userId, gameId, existing, time, acc) ==
    PlanFrom(existing, acc, NewContributions(userId, gameId, acc.tagsToInsert, time))

\* what processUserTags decides from the documents it loaded: the ids to delete,
\* the ids to refresh and the documents to insert
ReconcilePlan(userId, gameId, tags, existing, time) ==
    PlanFromClassified(userId, gameId, existing, time,
        ClassifyTags(tags, existingTagsMap(existing),
            [tagsToKeep |-> <<>>, tagsToInsert |-> <<>>, tagsToUpdate |-> {}]))

\* the writes of processUserTags, in the order of the code: deleteMany, updateMany,
\* insertMany; ok is FALSE when insertMany raised
ApplyPlan(coll, plan, time) ==
    insertMany(updateMany(deleteMany(coll, plan.contributionsToDeleteIds),
                          plan.contributionsToUpdateIds, time),
               plan.contributionsToInsertFinal)

\* a find that does not filter on the user: find({ mediaSlug, mediaType })
ContributionsOfAnyUser(coll, userId, slug) ==
    {d \in coll : d.mediaSlug = slug /\ d.mediaType = VIDEO_GAME}

\* find({ userId, mediaSlug, mediaType })
ContributionsOf(coll, userId, slug) ==
    {d \in coll : d.userId = userId /\ d.mediaSlug = slug /\ d.mediaType = VIDEO_GAME}

(***************************************************************************)
(* createTags (handlers/igdb.ts), one whole request at a time.             *)
(***************************************************************************)
\* an upsert that adds the aggregated tags to the tags already recorded
MergeMediaTags(coll, contributions, slug, time) ==
    LET aggregatedTags ==
            distinctTags(contributions, slug)
                \cup UNION {m.tags : m \in {n \in coll : n.mediaSlug = slug}}
        others == {m \in coll : ~(m.mediaSlug = slug /\ m.mediaType = VIDEO_GAME)}
    IN  IF aggregatedTags # {}
        THEN others \cup {[mediaSlug |-> slug, mediaType |-> VIDEO_GAME,
                           tags |-> aggregatedTags, updated_at |-> time]}
        ELSE others

\* the aggregate recompute and the upsert / delete of the mediaTags document
RecomputeMediaTags(coll, contributions, slug, time) ==
    LET aggregatedTags == distinctTags(contributions, slug)
        others == {m \in coll : ~(m.mediaSlug = slug /\ m.mediaType = VIDEO_GAME)}
    IN  IF aggregatedTags # {}
        THEN others \cup {[mediaSlug |-> slug, mediaType |-> VIDEO_GAME,
                           tags |-> aggregatedTags, updated_at |-> time]}
        ELSE others

\* normalizedTags and containsBadWords(normalizedTags) of every payload
NormalizedPayload == [p \in Payloads |-> normalizedTags(p)] @@ <<>>

BlockedPayload == [p \in Payloads |-> containsBadWords(normalizedTags(p))] @@ <<>>

\* a request that ends before processUserTags is called
NoCall(status, message) ==
    [status |-> status, message |-> message, userId |-> NoUser, gameId |-> Undefined,
     tags |-> <<>>, deleted |-> 0, updated |-> 0, inserted |-> 0]

\* a variant of the early return that empties both collections first
RespondAfterReset(status, message) ==
    /\ lastResult' = NoCall(status, message)
    /\ userContributions' = {}
    /\ mediaTags' = {}
    /\ UNCHANGED now

\* context.json({ success: false, message }, status) before any storage call
Respond(status, message) ==
    /\ lastResult' = NoCall(status, message)
    /\ UNCHANGED <<now, userContributions, mediaTags>>

CreateTags(req) ==
    LET gameSlug == param(req, "slug")
        tags == NormalizedPayload[req.tags]
    IN  /\ IF ~req.json THEN Respond(400, "Invalid JSON body")
           ELSE IF ~req.isArray THEN Respond(400, "No tags provided")
           ELSE IF req.sub = NoUser THEN Respond(401, "Authentication required")
           ELSE IF Len(tags) = 0 THEN Respond(400, "No tags provided")
           ELSE IF BlockedPayload[req.tags]
           THEN Respond(400, "Tags contain inappropriate words")
           ELSE \E existing \in FindOrders(ContributionsOf(userContributions, req.sub, gameSlug)) :
                \E plan \in {ReconcilePlan(req.sub, gameSlug, tags, existing, now)} :
                \E inserted \in {ApplyPlan(userContributions, plan, now)} :
                    /\ userContributions' = inserted.coll
                    /\ mediaTags' = IF inserted.ok
                                    THEN RecomputeMediaTags(mediaTags, inserted.coll, gameSlug, now)
                                    ELSE mediaTags
                    /\ lastResult' =
                           [status   |-> IF inserted.ok THEN 200 ELSE 500,
                            message  |-> IF inserted.ok THEN "Tags processed successfully"
                                         ELSE "Internal server error",
                            userId   |-> req.sub,
                            gameId   |-> gameSlug,
                            tags     |-> tags,
                            deleted  |-> Cardinality(plan.contributionsToDeleteIds),
                            updated  |-> Cardinality(plan.contributionsToUpdateIds),
                            inserted |-> Cardinality(inserted.coll)
                                           - Cardinality(userContributions)
                                           + Cardinality(plan.contributionsToDeleteIds)]
                    /\ UNCHANGED now
        /\ UNCHANGED <<guardVars, bwVars, cacheVars, readVars, txVars, extVars>>

\* time passes between requests
Tick ==
    /\ now < MaxTime
    /\ now' = now + 1
    /\ UNCHANGED <<userContributions, mediaTags, lastResult>>
    /\ UNCHANGED <<guardVars, bwVars, cacheVars, readVars, txVars, extVars>>

(***************************************************************************)
(* The IGDB token guard (utils/igdb.ts).  The program is single-threaded:  *)
(* a call runs up to its first await in one step, a response of the token  *)
(* endpoint settles the refresh promise in one step, and the awaits that   *)
(* the promise resumes run one after another, in the order in which they   *)
(* were registered, before any other call or response is handled.          *)
(***************************************************************************)
\* let tokenRefreshPromise: Promise<void> | null = null
NoPromise == 0

Callers == 1..NumCallers

\* the buffer of isIgdbTokenValid, in minutes
FIVE_MINUTES == 5

\* expires_in of a successful response of the token endpoint, in minutes: one that
\* the buffer makes unusable from the start, one that lasts two minutes beyond it
ShortLifetime == FIVE_MINUTES

LongLifetime == FIVE_MINUTES + 2

\* what the token endpoint answers: an error (response.ok false, no access_token,
\* or the fetch failing), or a token with a lifetime
Outcomes ==
    {[ok |-> FALSE, kind |-> k, expires_in |-> 0] :
         k \in {"status", "no access_token", "transport"}}
        \cup {[ok |-> TRUE, kind |-> "token", expires_in |-> l] :
                  l \in {ShortLifetime, LongLifetime}}

\* getIgdbExpiration() is null when IGDB_EXPIRES_AT is not set
NoExpiration == -1

isIgdbTokenValid ==
    /\ accessToken # ""
    /\ expiresAt # NoExpiration
    /\ expiresAt > now + FIVE_MINUTES

\* a connectIgdb that forgets the stored credential when the exchange fails
ClearedOnFailure(outcome, token, expires, time) ==
    IF ~outcome.ok THEN [accessToken |-> "", expiresAt |-> NoExpiration]
    ELSE [accessToken |-> "token", expiresAt |-> time + outcome.expires_in]

\* the environment after connectIgdb: the throws of lines 34-42 come before the
\* setEnv calls of lines 44-47
StoredCredential(outcome, token, expires, time) ==
    IF ~outcome.ok THEN [accessToken |-> token, expiresAt |-> expires]
    ELSE [accessToken |-> "token", expiresAt |-> time + outcome.expires_in]

\* the number of refresh promises that have settled
Settled == Cardinality({p \in DOMAIN promises : promises[p].status # "pending"})

\* a guard that never sees a refresh in flight
NeverInFlight(slot) == FALSE

\* if (tokenRefreshPromise)
RefreshInFlight(slot) == slot # NoPromise

\* a waiter that lets the failure of the refresh it awaited reach its caller
PropagateFailure(status, valid) ==
    IF status = "rejected" THEN "throw"
    ELSE IF valid THEN "return" ELSE "retry"

\* lines 101-111: what a caller does when the refresh it awaited at line 102 has
\* settled: return true, or fall through to line 114; the catch swallows a failure
AfterSharedRefresh(status, valid) ==
    IF status = "fulfilled" /\ valid THEN "return" ELSE "retry"

\* lines 114-125: the caller calls connectIgdb, which sends the request to the token
\* endpoint, stores the promise in the slot and awaits it
StartRefresh(c, epoch) ==
    LET id == Len(promises) + 1
    IN  /\ promises' = Append(promises, [status |-> "pending", by |-> c,
                                         awaiters |-> <<c>>, expires_in |-> 0])
        /\ tokenRefreshPromise' = id
        /\ exchangeCalls' = exchangeCalls + 1
        /\ callers' = [callers EXCEPT ![c] =
                          [@ EXCEPT !.pc = "line125", !.epoch = epoch,
                                    !.awaited = Append(@, id)]]

\* a call of ensureValidIgdbToken, up to its return or its first await
Call(c) ==
    /\ callers[c].pc = "idle"
    /\ microtasks = <<>>
    /\ IF isIgdbTokenValid
       THEN /\ callers' = [callers EXCEPT ![c] =
                              [@ EXCEPT !.pc = "done", !.result = "true",
                                        !.epoch = Settled]]
            /\ UNCHANGED <<tokenRefreshPromise, promises, exchangeCalls>>
       ELSE IF RefreshInFlight(tokenRefreshPromise)
       THEN /\ callers' = [callers EXCEPT ![c] =
                              [@ EXCEPT !.pc = "line102", !.epoch = Settled,
                                        !.awaited = <<tokenRefreshPromise>>]]
            /\ promises' = [promises EXCEPT ![tokenRefreshPromise].awaiters =
                                                Append(@, c)]
            /\ UNCHANGED <<tokenRefreshPromise, exchangeCalls>>
       ELSE StartRefresh(c, Settled)
    /\ UNCHANGED <<accessToken, expiresAt, microtasks>>
    /\ UNCHANGED <<tagVars, bwVars, cacheVars, readVars, txVars, extVars>>

\* the token endpoint answers the request of refresh p: connectIgdb throws or stores
\* the token, the finally clause clears the slot, the promise settles and its
\* awaiters are queued
FetchRespond(p, outcome) ==
    /\ promises[p].status = "pending"
    /\ microtasks = <<>>
    /\ promises' = IF ~outcome.ok
                   THEN [promises EXCEPT ![p].status = "rejected"]
                   ELSE [promises EXCEPT ![p].status = "fulfilled",
                                         ![p].expires_in = outcome.expires_in]
    /\ accessToken' = StoredCredential(outcome, accessToken, expiresAt, now).accessToken
    /\ expiresAt' = StoredCredential(outcome, accessToken, expiresAt, now).expiresAt
    /\ tokenRefreshPromise' = NoPromise
    /\ microtasks' = promises[p].awaiters
    /\ UNCHANGED <<callers, exchangeCalls>>
    /\ UNCHANGED <<tagVars, bwVars, cacheVars, readVars, txVars, extVars>>

\* the first queued caller continues after its await
Resume ==
    /\ microtasks # <<>>
    /\ LET c == Head(microtasks)
           p == callers[c].awaited[Len(callers[c].awaited)]
       IN  IF callers[c].pc = "line125"
           THEN /\ callers' = [callers EXCEPT ![c] =
                                  [@ EXCEPT !.pc = "done",
                                            !.result =
                                                IF promises[p].status = "rejected"
                                                THEN "throw"
                                                ELSE IF isIgdbTokenValid THEN "true"
                                                ELSE "false"]]
                /\ UNCHANGED <<tokenRefreshPromise, promises, exchangeCalls>>
           ELSE \E next \in {AfterSharedRefresh(promises[p].status, isIgdbTokenValid)} :
                    IF next = "retry"
                    THEN StartRefresh(c, callers[c].epoch)
                    ELSE /\ callers' = [callers EXCEPT ![c] =
                                           [@ EXCEPT !.pc = "done",
                                                     !.result = IF next = "return"
                                                                THEN "true"
                                                                ELSE "throw"]]
                         /\ UNCHANGED <<tokenRefreshPromise, promises, exchangeCalls>>
    /\ microtasks' = Tail(microtasks)
    /\ UNCHANGED <<accessToken, expiresAt>>
    /\ UNCHANGED <<tagVars, bwVars, cacheVars, readVars, txVars, extVars>>

\* time passes between two events
GuardTick ==
    /\ now < MaxGuardTime
    /\ microtasks = <<>>
    /\ now' = now + 1
    /\ UNCHANGED <<userContributions, mediaTags, lastResult>>
    /\ UNCHANGED <<guardVars, bwVars, cacheVars, readVars, txVars, extVars>>

(***************************************************************************)
(* The catalog caches of search and getGame (handlers/igdb.ts).  A Map is  *)
(* the sequence of its entries in insertion order.  Times are in minutes;  *)
(* a request body is the sequence of its lexemes, a route parameter the    *)
(* sequence of its characters.                                             *)
(***************************************************************************)
CACHE_TTL == 15

\* 50 in the source: the capacities are scaled down so that a cache fills up
MAX_SEARCH_CACHE_SIZE == 2

MAX_GAME_CACHE_SIZE == 2

MaxUpstreamCalls == 3

MaxCacheTime == 15

DEFAULT_FIELDS == <<"fields", " ", "name,summary,genres.name,platforms.name,first_release_date,slug">>

\* Map.prototype.has
MapHas(map, key) == \E i \in 1..Len(map) : map[i].key = key

\* Map.prototype.get, for a key the map has
MapGet(map, key) == map[CHOOSE i \in 1..Len(map) : map[i].key = key]

\* the keys of a map, the last inserted first
MapKeysNewestFirst(map) == [i \in 1..Len(map) |-> map[Len(map) + 1 - i].key]

\* Map.prototype.keys
MapKeys(map) == [i \in 1..Len(map) |-> map[i].key]

\* a variant of Map.prototype.delete that removes nothing
MapDeleteNothing(map, key) == map

\* Map.prototype.delete
MapDelete(map, key) == SelectSeq(map, LAMBDA entry : entry.key # key)

\* Map.prototype.set: the value of an existing key is replaced where it stands,
\* a new key is appended
MapSet(map, key, data, time) ==
    IF MapHas(map, key)
    THEN [i \in 1..Len(map) |->
             IF map[i].key = key THEN [key |-> key, data |-> data, time |-> time]
             ELSE map[i]]
    ELSE Append(map, [key |-> key, data |-> data, time |-> time])

\* a variant of the freshness test that never expires an entry
IsPresent(map, key, time) == MapHas(map, key)

\* cached && (Date.now() - cached.time < CACHE_TTL)
IsFresh(map, key, time) == MapHas(map, key) /\ time - MapGet(map, key).time < CACHE_TTL

\* a store that makes room only for a key the cache does not hold
StoreMakingRoomForNewKey(map, max, key, data, time) ==
    MapSet(IF Len(map) >= max /\ ~MapHas(map, key)
           THEN MapDelete(map, MapKeys(map)[1]) ELSE map,
           key, data, time)

\* if (cache.size >= MAX) cache.delete([...cache.keys()][0]); cache.set(key, ...)
StoreInCache(map, max, key, data, time) ==
    MapSet(IF Len(map) >= max THEN MapDelete(map, MapKeys(map)[1]) ELSE map,
           key, data, time)

NoData == [key |-> <<>>, at |-> -1]

\* the data the catalog holds for a key: it changes as time passes
CatalogData(key, time) == [key |-> key, at |-> time]

\* what the catalog call comes to: a response that is not ok, a rejected fetch,
\* a body that is not JSON, or the catalog's data
CatalogOutcomes == {"status", "transport", "json", "ok"}

DataOf(key, outcome, time) == IF outcome = "ok" THEN CatalogData(key, time) ELSE NoData

\* a variant of the response handling that stores whatever the catalog call
\* came to
CacheAfterAnyResponse(map, max, key, outcome, time) ==
    StoreInCache(map, max, key, DataOf(key, outcome, time), time)

\* the cache after the catalog call: a response that is not ok returns 502 and a
\* rejected fetch or json() is caught, both before the store
CacheAfterResponse(map, max, key, outcome, time) ==
    IF outcome # "ok" THEN map
    ELSE StoreInCache(map, max, key, DataOf(key, outcome, time), time)

\* String.prototype.includes('fields')
includesFields(bodyQuery) == IsSubstring(<<"fields">>, bodyQuery)

\* the query sent to the catalog
igdbQueryOf(bodyQuery) ==
    IF ~includesFields(bodyQuery) THEN DEFAULT_FIELDS \o <<";", " ">> \o bodyQuery
    ELSE bodyQuery

searchCacheKey(bodyQuery) == trim(igdbQueryOf(bodyQuery))

\* Number(string) of a route parameter: a string of decimal digits is that
\* number, a string with any other character is NaN
IsDigit(char) == \E d \in 1..10 : Digits[d] = char

DigitValue(char) == (CHOOSE d \in 1..10 : Digits[d] = char) - 1

RECURSIVE DecimalValue(_)
DecimalValue(s) ==
    IF s = <<>> THEN 0
    ELSE 10 * DecimalValue(SubSeq(s, 1, Len(s) - 1)) + DigitValue(s[Len(s)])

NumberOf(s) ==
    IF \A i \in 1..Len(s) : IsDigit(s[i])
    THEN [nan |-> FALSE, value |-> DecimalValue(s)]
    ELSE [nan |-> TRUE, value |-> 0]

\* String(number)
RECURSIVE DecimalString(_)
DecimalString(n) ==
    IF n < 10 THEN <<Digits[n + 1]>>
    ELSE Append(DecimalString(n \div 10), Digits[(n % 10) + 1])

StringOf(number) == IF number.nan THEN <<"N", "a", "N">> ELSE DecimalString(number.value)

gameCacheKey(idParam) == StringOf(NumberOf(idParam))

\* the request bodies of search
SearchBodies ==
    { <<>>, <<" ">>,
      <<"a">>, <<"a", " ">>, <<"b">>, <<"c">>,
      <<"fields", " ", "a">> }

\* the :id parameters of getGame
GameIdParams == { <<"1">>, <<"0", "1">>, <<"2">>, <<"3">>, <<"x">> }

NoReply == [handler |-> "none", key |-> <<>>, status |-> 0, data |-> NoData, fetched |-> FALSE]

Reply(handler, key, status, data, fetched) ==
    [handler |-> handler, key |-> key, status |-> status, data |-> data, fetched |-> fetched]

\* the request up to its await of fetch: answered from the cache, or a catalog
\* call is started
AnswerOrFetch(handler, cache, key) ==
    IF IsFresh(cache, key, now)
    THEN /\ lastReply' = Reply(handler, key, 200, MapGet(cache, key).data, FALSE)
         /\ UNCHANGED <<fetching, upstreamCalls>>
    ELSE /\ upstreamCalls < MaxUpstreamCalls
         /\ upstreamCalls' = upstreamCalls + 1
         /\ fetching' = fetching (+) SetToBag({[handler |-> handler, key |-> key]})
         /\ UNCHANGED lastReply

\* search, from the request to its response or to its await of fetch
Search(bodyQuery) ==
    /\ IF trim(bodyQuery) = <<>>
       THEN /\ lastReply' = Reply("search", <<>>, 400, NoData, FALSE)
            /\ UNCHANGED <<fetching, upstreamCalls>>
       ELSE AnswerOrFetch("search", searchCache, searchCacheKey(bodyQuery))
    /\ UNCHANGED <<searchCache, gameCache>>
    /\ UNCHANGED <<tagVars, guardVars, bwVars, readVars, txVars, extVars>>

\* getGame, from the request to its response or to its await of fetch
GetGame(idParam) ==
    /\ AnswerOrFetch("getGame", gameCache, gameCacheKey(idParam))
    /\ UNCHANGED <<searchCache, gameCache>>
    /\ UNCHANGED <<tagVars, guardVars, bwVars, readVars, txVars, extVars>>

\* search, from the catalog's response to its own
SearchResponds(f, outcome) ==
    /\ BagIn(f, fetching)
    /\ f.handler = "search"
    /\ fetching' = fetching (-) SetToBag({f})
    /\ searchCache' = CacheAfterResponse(searchCache, MAX_SEARCH_CACHE_SIZE,
                                         f.key, outcome, now)
    /\ lastReply' = IF outcome # "ok"
                    THEN Reply("search", f.key, 502, NoData, TRUE)
                    ELSE Reply("search", f.key, 200, DataOf(f.key, outcome, now), TRUE)
    /\ UNCHANGED <<gameCache, upstreamCalls>>
    /\ UNCHANGED <<tagVars, guardVars, bwVars, readVars, txVars, extVars>>

\* getGame, from the catalog's response to its own
GetGameResponds(f, outcome) ==
    /\ BagIn(f, fetching)
    /\ f.handler = "getGame"
    /\ fetching' = fetching (-) SetToBag({f})
    /\ gameCache' = CacheAfterResponse(gameCache, MAX_GAME_CACHE_SIZE,
                                       f.key, outcome, now)
    /\ lastReply' = IF outcome # "ok"
                    THEN Reply("getGame", f.key, 502, NoData, TRUE)
                    ELSE Reply("getGame", f.key, 200, DataOf(f.key, outcome, now), TRUE)
    /\ UNCHANGED <<searchCache, upstreamCalls>>
    /\ UNCHANGED <<tagVars, guardVars, bwVars, readVars, txVars, extVars>>

\* time passes between two events: just under the TTL, or the TTL
CacheTick ==
    /\ \E step \in {CACHE_TTL - 1, CACHE_TTL} :
           /\ now + step <= MaxCacheTime
           /\ now' = now + step
    /\ UNCHANGED <<userContributions, mediaTags, lastResult>>
    /\ UNCHANGED <<guardVars, bwVars, readVars, txVars, extVars>>
    /\ UNCHANGED cacheVars

CacheInit ==
    /\ searchCache = <<>>
    /\ gameCache = <<>>
    /\ fetching = EmptyBag
    /\ lastReply = NoReply
    /\ upstreamCalls = 0

(***************************************************************************)
(* getTags (handlers/igdb.ts), one whole request at a time.                *)
(***************************************************************************)
\* context.req.query('count') of a request without that parameter
NoQuery == [present |-> FALSE, text |-> <<>>]

Query(text) == [present |-> TRUE, text |-> text]

\* the values of ?count= the requests carry
CountParams ==
    { NoQuery, Query(<<>>), Query(<<"0">>), Query(<<"1">>), Query(<<"2">>),
      Query(<<"2", ".", "5">>), Query(<<"0", ".", "5">>), Query(<<"-", "1">>),
      Query(<<"x">>) }

TagQueries ==
    [id : {"rdr2"}, count : CountParams] \cup [id : {"gta5"}, count : {NoQuery, Query(<<"1">>)}]

IsDigits(s) == s # <<>> /\ \A i \in 1..Len(s) : IsDigit(s[i])

PointAt(s) == IF \E i \in 1..Len(s) : s[i] = "." THEN CHOOSE i \in 1..Len(s) : s[i] = "." ELSE 0

\* Number(string) of a decimal numeral, with or without sign and fraction; any
\* other string is NaN.  Of the number the code uses whether it is finite,
\* whether it is positive, and its floor when it is.
NumberOfCount(s) ==
    LET negative == s # <<>> /\ Head(s) = "-"
        digits   == IF negative THEN Tail(s) ELSE s
        point    == PointAt(digits)
        whole    == IF point = 0 THEN digits ELSE SubSeq(digits, 1, point - 1)
        fraction == IF point = 0 THEN <<>> ELSE SubSeq(digits, point + 1, Len(digits))
    IN  IF IsDigits(whole) /\ (point = 0 \/ IsDigits(fraction))
        THEN [finite   |-> TRUE,
              positive |-> ~negative /\ (DecimalValue(whole) > 0 \/ DecimalValue(fraction) > 0),
              floor    |-> DecimalValue(whole)]
        ELSE [finite |-> FALSE, positive |-> FALSE, floor |-> 0]

\* limit, 0 standing for undefined: the pipeline gets a $limit only if
\* (limit && limit > 0)
NoLimit == 0

limitOf(countParam) ==
    IF ~countParam.present \/ countParam.text = <<>> THEN NoLimit
    ELSE LET parsed == NumberOfCount(countParam.text)
         IN  IF parsed.finite /\ parsed.positive THEN parsed.floor ELSE NoLimit

\* { $match: { mediaSlug, mediaType, tag: { $in: tags } } },
\* { $group: { _id: '$tag', count: { $sum: 1 } } }
TagCounts(coll, slug, tags) ==
    {[tag |-> t, count |-> Cardinality({d \in coll :
                               d.mediaSlug = slug /\ d.mediaType = VIDEO_GAME /\ d.tag = t})] :
        t \in {d.tag : d \in {e \in coll :
                  e.mediaSlug = slug /\ e.mediaType = VIDEO_GAME /\ e.tag \in tags}}}

\* an ordering by count that puts the smallest count first
SortedAscending(groups) ==
    {s \in FindOrders(groups) : \A i, j \in 1..Len(s) : i < j => s[i].count <= s[j].count}

\* { $sort: { count: -1 } }: groups of equal count come in any order
SortedByCount(groups) ==
    {s \in FindOrders(groups) : \A i, j \in 1..Len(s) : i < j => s[i].count >= s[j].count}

\* { $limit: limit }, if the stage is there
Limited(s, limit) == IF limit > 0 THEN Take(s, limit) ELSE s

NoTags == [status |-> 0, slug |-> Undefined, limit |-> NoLimit, data |-> <<>>]

GetTags(query) ==
    LET slug == param(query, "slug")
        limit == limitOf(query.count)
        found == {m \in mediaTags : m.mediaSlug = slug /\ m.mediaType = VIDEO_GAME}
    IN  /\ IF found = {}
           THEN lastTags' = [status |-> 404, slug |-> slug, limit |-> limit, data |-> <<>>]
           ELSE \E mediaTag \in found :
                \E tagCounts \in SortedByCount(TagCounts(userContributions, slug, mediaTag.tags)) :
                    lastTags' = [status |-> 200, slug |-> slug, limit |-> limit,
                                 data |-> Limited(tagCounts, limit)]
        /\ UNCHANGED <<tagVars, guardVars, bwVars, cacheVars, txVars, extVars>>

ReadInit == lastTags = NoTags


\* the submissions that fill the store the tag counts are read from
CountedRequests ==
    {req \in Requests :
        /\ req.json /\ req.isArray /\ req.sub \in Users
        /\ req.tags \in OtherUserPayloads \cup {<<>>, <<StringItem(western)>>}}

(***************************************************************************)
(* createTags when submissions interleave (handlers/igdb.ts).  Every await *)
(* of a storage call is a point where another request may run; the storage *)
(* call itself is one step.  A storage call the code skips (an empty list   *)
(* of ids or documents) is no step.                                         *)
(***************************************************************************)
Sessions == {"s1", "s2"}

IdleSession ==
    [pc |-> "idle", status |-> 0, userId |-> NoUser, gameId |-> Undefined,
     tags |-> <<>>, time |-> 0, finds |-> 0, existingContributions |-> <<>>,
     follows |-> "none",
     plan |-> [contributionsToDeleteIds |-> {}, contributionsToUpdateIds |-> {},
               contributionsToInsertFinal |-> <<>>],
     aggregatedTags |-> {}]

\* the submissions that interleave: two users, one media item
InterleavedRequests ==
    {req \in Requests :
        /\ req.sub \in Users /\ req.id = "rdr2" /\ req.json /\ req.isArray
        /\ req.tags \in { <<StringItem(story)>>,
                          <<StringItem(bandits)>>,
                          <<StringItem(story), StringItem(action), StringItem(western)>>,
                          <<StringItem(action), StringItem(western), StringItem(bandits)>>,
                          <<StringItem(story), StringItem(r4p3)>> }}

\* the first storage call of processUserTags that is not skipped, from the one
\* named on: deleteMany (line 391), updateMany (402), insertMany (412); after
\* them the aggregate of createTags (283)
AfterFind(plan) ==
    IF plan.contributionsToDeleteIds # {} THEN "deleteMany"
    ELSE IF plan.contributionsToUpdateIds # {} THEN "updateMany"
    ELSE IF plan.contributionsToInsertFinal # <<>> THEN "insertMany"
    ELSE "aggregate"

AfterDelete(plan) ==
    IF plan.contributionsToUpdateIds # {} THEN "updateMany"
    ELSE IF plan.contributionsToInsertFinal # <<>> THEN "insertMany"
    ELSE "aggregate"

AfterUpdate(plan) ==
    IF plan.contributionsToInsertFinal # <<>> THEN "insertMany" ELSE "aggregate"

\* an updateOne that adds the aggregated tags to those of the record ($addToSet)
AddToMediaTags(coll, slug, aggregatedTags, time) ==
    LET others == {m \in coll : ~(m.mediaSlug = slug /\ m.mediaType = VIDEO_GAME)}
        merged == aggregatedTags \cup
                      UNION {m.tags : m \in {r \in coll : r.mediaSlug = slug
                                                           /\ r.mediaType = VIDEO_GAME}}
    IN  IF merged # {}
        THEN others \cup {[mediaSlug |-> slug, mediaType |-> VIDEO_GAME,
                           tags |-> merged, updated_at |-> time]}
        ELSE others

\* updateOne({ mediaSlug, mediaType }, { $set: { tags, updated_at } }, upsert),
\* or deleteOne when no tag is left
WriteMediaTags(coll, slug, aggregatedTags, time) ==
    LET others == {m \in coll : ~(m.mediaSlug = slug /\ m.mediaType = VIDEO_GAME)}
    IN  IF aggregatedTags # {}
        THEN others \cup {[mediaSlug |-> slug, mediaType |-> VIDEO_GAME,
                           tags |-> aggregatedTags, updated_at |-> time]}
        ELSE others

\* createTags up to the find of processUserTags: the request is validated, and
\* new Date() of line 330 is taken
Begin(s, req) ==
    /\ sessions[s].pc = "idle"
    /\ sessions' = [sessions EXCEPT ![s] =
           IF ~req.json \/ ~req.isArray \/ Len(NormalizedPayload[req.tags]) = 0
                \/ BlockedPayload[req.tags]
           THEN [@ EXCEPT !.pc = "done", !.status = 400]
           ELSE IF req.sub = NoUser
           THEN [@ EXCEPT !.pc = "done", !.status = 401]
           ELSE [@ EXCEPT !.pc = "find", !.userId = req.sub,
                          !.gameId = param(req, "slug"),
                          !.tags = NormalizedPayload[req.tags], !.time = now]]
    /\ UNCHANGED <<tagVars, guardVars, bwVars, cacheVars, readVars, extVars>>

\* find (lines 332-336) and what the request decides from the documents loaded
Find(s) ==
    /\ sessions[s].pc = "find"
    /\ \E existing \in FindOrders(ContributionsOf(userContributions,
                                                   sessions[s].userId, sessions[s].gameId)) :
       \E plan \in {ReconcilePlan(sessions[s].userId, sessions[s].gameId,
                                  sessions[s].tags, existing, sessions[s].time)} :
           sessions' = [sessions EXCEPT ![s] =
                           [@ EXCEPT !.existingContributions = existing,
                                     !.finds = @ + 1,
                                     !.plan = plan, !.pc = AfterFind(plan)]]
    /\ UNCHANGED <<tagVars, guardVars, bwVars, cacheVars, readVars, extVars>>

\* deleteMany (line 391)
DeleteMany(s) ==
    /\ sessions[s].pc = "deleteMany"
    /\ userContributions' =
           deleteMany(userContributions, sessions[s].plan.contributionsToDeleteIds)
    /\ sessions' = [sessions EXCEPT ![s].pc = AfterDelete(sessions[s].plan)]
    /\ UNCHANGED <<now, mediaTags, lastResult>>
    /\ UNCHANGED <<guardVars, bwVars, cacheVars, readVars, extVars>>

\* updateMany (lines 402-405)
UpdateMany(s) ==
    /\ sessions[s].pc = "updateMany"
    /\ userContributions' =
           updateMany(userContributions, sessions[s].plan.contributionsToUpdateIds,
                      sessions[s].time)
    /\ sessions' = [sessions EXCEPT ![s].pc = AfterUpdate(sessions[s].plan)]
    /\ UNCHANGED <<now, mediaTags, lastResult>>
    /\ UNCHANGED <<guardVars, bwVars, cacheVars, readVars, extVars>>

\* insertMany (line 412); a duplicate key raises and createTags answers 500
InsertMany(s) ==
    /\ sessions[s].pc = "insertMany"
    /\ \E inserted \in {insertMany(userContributions,
                                   sessions[s].plan.contributionsToInsertFinal)} :
           /\ userContributions' = inserted.coll
           /\ sessions' = [sessions EXCEPT ![s] =
                  IF inserted.ok THEN [@ EXCEPT !.pc = "aggregate"]
                  ELSE [@ EXCEPT !.pc = "done", !.status = 500]]
    /\ UNCHANGED <<now, mediaTags, lastResult>>
    /\ UNCHANGED <<guardVars, bwVars, cacheVars, readVars, extVars>>

\* the aggregate of the distinct tags (lines 283-290)
Aggregate(s) ==
    /\ sessions[s].pc = "aggregate"
    /\ sessions' = [sessions EXCEPT ![s] =
           [@ EXCEPT !.aggregatedTags = distinctTags(userContributions, sessions[s].gameId),
                     !.pc = "updateOne"]]
    /\ UNCHANGED <<tagVars, guardVars, bwVars, cacheVars, readVars, extVars>>

\* updateOne or deleteOne of mediaTags (lines 292-302), and the response
UpdateOne(s) ==
    /\ sessions[s].pc = "updateOne"
    /\ mediaTags' = WriteMediaTags(mediaTags, sessions[s].gameId,
                                   sessions[s].aggregatedTags, now)
    /\ sessions' = [sessions EXCEPT ![s] = [@ EXCEPT !.pc = "done", !.status = 200]]
    /\ UNCHANGED <<now, userContributions, lastResult>>
    /\ UNCHANGED <<guardVars, bwVars, cacheVars, readVars, extVars>>

\* the storage call the request is about to make rejects (the store cannot be
\* reached, the operation times out): nothing is written by that call, the
\* error reaches the catch of createTags (lines 303-307), which answers 500
StorageFails(s) ==
    /\ sessions[s].pc \in {"find", "deleteMany", "updateMany", "insertMany",
                           "aggregate", "updateOne"}
    /\ sessions' = [sessions EXCEPT ![s] = [@ EXCEPT !.pc = "done", !.status = 500]]
    /\ UNCHANGED <<tagVars, guardVars, bwVars, cacheVars, readVars, extVars>>

\* time passes between two steps
SessionTick ==
    /\ now < MaxTime
    /\ now' = now + 1
    /\ UNCHANGED <<userContributions, mediaTags, lastResult>>
    /\ UNCHANGED <<guardVars, bwVars, cacheVars, readVars, txVars, extVars>>

\* the submissions that interleave before a later request arrives
RacingRequests ==
    {req \in InterleavedRequests :
        req.tags \in { <<StringItem(story)>>, <<StringItem(bandits)>> }}

\* the requests that arrive after the interleaved ones were answered
LaterRequests ==
    {req \in InterleavedRequests :
        req.tags \in { <<StringItem(story)>>,
                       <<StringItem(action), StringItem(western), StringItem(bandits)>> }}

\* whether the tags of the mediaTags record of a media item differ from the
\* distinct tags of its contribution rows
StaleRecord(records, contributions, slug) ==
    UNION {m.tags : m \in {r \in records : r.mediaSlug = slug /\ r.mediaType = VIDEO_GAME}}
        # distinctTags(contributions, slug)

\* the next request after the interleaved ones: it arrives when they have been
\* answered, and so runs its storage calls with no other request between
\* them.  createTags up to the find, as in Begin.  `follows` notes the state of the record it met.
BeginAlone(s, req) ==
    /\ \A t \in Sessions : sessions[t].pc = "done" /\ sessions[t].follows = "none"
    /\ sessions' = [sessions EXCEPT ![s] =
           [IdleSession EXCEPT
               !.pc = IF req.sub = NoUser THEN "done" ELSE "find",
               !.status = IF req.sub = NoUser THEN 401 ELSE 0,
               !.userId = req.sub,
               !.gameId = param(req, "slug"),
               !.tags = NormalizedPayload[req.tags],
               !.time = now,
               !.follows = IF StaleRecord(mediaTags, userContributions, param(req, "slug"))
                           THEN "stale" ELSE "consistent"]]
    /\ UNCHANGED <<tagVars, guardVars, bwVars, cacheVars, readVars, extVars>>

\* the tags user A holds for the media item when the submissions arrive: none,
\* or the tags of an earlier submission that was handled alone
EarlierSubmissions == { <<>>, <<story>>, <<story, action, western>> }

StoreAfter(tags) ==
    IF tags = <<>> THEN {}
    ELSE ApplyPlan({}, ReconcilePlan("A", Undefined, tags, <<>>, 0), 0).coll

(***************************************************************************)
(* connectIgdb at startup, in the version that keeps the credential in a   *)
(* file (unnamed/part_009): loadIgdbToken, the exchange, saveIgdbToken.    *)
(***************************************************************************)
\* the buffer of connectIgdb (60 * 1000 ms), in minutes
ONE_MINUTE == 1

\* the startup takes at most this long
MaxBootTime == 2

\* Deno.readTextFile raises NotFound
NoFile == [kind |-> "missing", accessToken |-> "", expiresAt |-> 0]

\* the file is not JSON, or not an object with a string accessToken and a number
\* expiresAt
InvalidFile == [kind |-> "invalid", accessToken |-> "", expiresAt |-> 0]

TokenFile(token, expires) ==
    [kind |-> "token", accessToken |-> token, expiresAt |-> expires]

\* what the file may hold when the process starts: nothing, something else, or
\* a credential that expires around the buffer; "" is a string, and passes the
\* check of loadIgdbToken
TokenFiles ==
    {NoFile, InvalidFile}
        \cup {TokenFile(token, expires) :
                  token \in {"", "cached"}, expires \in 0 .. (MaxBootTime + ONE_MINUTE + 1)}

\* loadIgdbToken: the token data, or null
NoTokenData == [found |-> FALSE, accessToken |-> "", expiresAt |-> 0]

loadIgdbToken(file) ==
    IF file.kind = "token"
    THEN [found |-> TRUE, accessToken |-> file.accessToken, expiresAt |-> file.expiresAt]
    ELSE NoTokenData

\* existingTokenData && existingTokenData.expiresAt > Date.now() + (60 * 1000)
\* with >= in place of >
UsableAtBuffer(tokenData, time) ==
    tokenData.found /\ tokenData.expiresAt >= time + ONE_MINUTE

\* existingTokenData && existingTokenData.expiresAt > Date.now() + (60 * 1000)
UsableTokenData(tokenData, time) ==
    tokenData.found /\ tokenData.expiresAt > time + ONE_MINUTE

\* setEnv(key, value) on the value of one variable: a blank value is not stored
setEnvValue(old, value) == IF value = "" THEN old ELSE value

\* what the token endpoint answers to the startup: as Outcomes, and a response
\* whose expires_in is not a number
BootOutcomes ==
    Outcomes \cup {[ok |-> FALSE, kind |-> "no expires_in", expires_in |-> 0]}

BootIdle ==
    [pc |-> "start", source |-> "none", expires_in |-> 0, exchangedAt |-> 0]

\* connectIgdb up to its return with the cached token, or up to its fetch
LoadToken ==
    /\ boot.pc = "start"
    /\ \E existingTokenData \in {loadIgdbToken(tokenFile)} :
           IF UsableTokenData(existingTokenData, now)
           THEN /\ accessToken' = setEnvValue(accessToken, existingTokenData.accessToken)
                /\ expiresAt' = existingTokenData.expiresAt
                /\ boot' = [boot EXCEPT !.pc = "done", !.source = "cached"]
                /\ UNCHANGED exchangeCalls
           ELSE /\ exchangeCalls' = exchangeCalls + 1
                /\ boot' = [boot EXCEPT !.pc = "fetch"]
                /\ UNCHANGED <<accessToken, expiresAt>>
    /\ UNCHANGED <<tokenRefreshPromise, promises, callers, microtasks, tokenFile, main>>
    /\ UNCHANGED <<tagVars, bwVars, cacheVars, readVars, txVars, authVars, userVars, envVars>>

\* the token endpoint answers: connectIgdb throws, or stores the credential in
\* the environment and goes on to saveIgdbToken
ExchangeResponds(outcome) ==
    /\ boot.pc = "fetch"
    /\ IF outcome.ok
       THEN /\ accessToken' = setEnvValue(accessToken, "token")
            /\ expiresAt' = now + outcome.expires_in
            /\ boot' = [boot EXCEPT !.pc = "save", !.source = "exchange",
                                    !.expires_in = outcome.expires_in,
                                    !.exchangedAt = now]
       ELSE /\ boot' = [boot EXCEPT !.pc = "failed"]
            /\ UNCHANGED <<accessToken, expiresAt>>
    /\ UNCHANGED <<tokenRefreshPromise, promises, callers, microtasks, exchangeCalls,
                   tokenFile, main>>
    /\ UNCHANGED <<tagVars, bwVars, cacheVars, readVars, txVars, authVars, userVars, envVars>>

\* saveIgdbToken: the file is written, with Date.now() taken anew, or the write
\* fails and the error is logged
SaveToken(written) ==
    /\ boot.pc = "save"
    /\ tokenFile' = IF written THEN TokenFile("token", now + boot.expires_in)
                    ELSE tokenFile
    /\ boot' = [boot EXCEPT !.pc = "done"]
    /\ UNCHANGED main
    /\ UNCHANGED <<tagVars, guardVars, bwVars, cacheVars, readVars, txVars, authVars, userVars, envVars>>

\* time passes during the startup
BootTick ==
    /\ boot.pc \notin {"done", "failed"}
    /\ now < MaxBootTime
    /\ now' = now + 1
    /\ UNCHANGED <<userContributions, mediaTags, lastResult>>
    /\ UNCHANGED <<guardVars, bwVars, cacheVars, readVars, txVars, extVars>>

(***************************************************************************)
(* main (main.ts, lines 79-145) with closeApp and startServer              *)
(* (unnamed/part_012).  connectIgdb is the startup above; connectMongo,    *)
(* createIndexes and validateCollections succeed or throw.  The code       *)
(* between two awaits runs as one step.                                    *)
(***************************************************************************)
NoExit == -1

MainIdle ==
    [pc |-> "connecting", mongo |-> "pending", caught |-> FALSE, closing |-> 0,
     started |-> FALSE, listening |-> FALSE, exitCode |-> NoExit]

\* what the call closeMongo() inside closeApp comes to before closeApp's
\* await: it returns (a promise or a value), or it throws synchronously
CloseMongoCalls == {"returns", "throws"}

\* what Deno.serve comes to inside startServer: the server listens, or the call
\* throws (the address is in use)
ServeCalls == {"listens", "throws"}

\* lines 112-144: the app is built, the routes are registered and startServer
\* is called; if it throws, closeApp(1) is called and awaited
StartServer(m, serve) ==
    IF serve = "listens"
    THEN [m EXCEPT !.pc = "returned", !.started = TRUE, !.listening = TRUE]
    ELSE [m EXCEPT !.pc = "awaitClose", !.started = TRUE, !.closing = @ + 1]

\* closeApp(exitCode) up to its await of closeMongo(), or, when closeMongo
\* throws before it returns, through its catch to Deno.exit
closeApp(m, exitCode, closeMongo) ==
    IF closeMongo = "throws"
    THEN [m EXCEPT !.pc = "exited", !.listening = FALSE, !.exitCode = exitCode]
    ELSE [m EXCEPT !.closing = @ + 1]

\* the catch of lines 104-110: closeApp(1) is called and not awaited, so
\* unless the process has exited main goes on to line 112
CatchConnectError(m, closeMongo, serve) ==
    LET closed == closeApp([m EXCEPT !.caught = TRUE], 1, closeMongo)
    IN  IF closed.pc = "exited" THEN closed ELSE StartServer(closed, serve)

\* connectMongo settles
ConnectMongo(connected) ==
    /\ main.pc # "exited"
    /\ main.mongo = "pending"
    /\ main' = [main EXCEPT !.mongo = IF connected THEN "ok" ELSE "failed"]
    /\ UNCHANGED <<tokenFile, boot>>
    /\ UNCHANGED <<tagVars, guardVars, bwVars, cacheVars, readVars, txVars, authVars,
                   userVars, envVars>>

\* Promise.all settles (lines 84-99): it rejects as soon as one of the two
\* connections has failed and resolves when both have succeeded
ServicesSettle(closeMongo, serve) ==
    /\ main.pc = "connecting"
    /\ \/ /\ main.mongo = "failed" \/ boot.pc = "failed"
          /\ main' = CatchConnectError(main, closeMongo, serve)
       \/ /\ main.mongo = "ok" /\ boot.pc = "done"
          /\ main' = [main EXCEPT !.pc = "createIndexes"]
    /\ UNCHANGED <<tokenFile, boot>>
    /\ UNCHANGED <<tagVars, guardVars, bwVars, cacheVars, readVars, txVars, authVars,
                   userVars, envVars>>

\* createIndexes settles (line 102)
CreateIndexes(created, closeMongo, serve) ==
    /\ main.pc = "createIndexes"
    /\ main' = IF created THEN [main EXCEPT !.pc = "validateCollections"]
               ELSE CatchConnectError(main, closeMongo, serve)
    /\ UNCHANGED <<tokenFile, boot>>
    /\ UNCHANGED <<tagVars, guardVars, bwVars, cacheVars, readVars, txVars, authVars,
                   userVars, envVars>>

\* validateCollections settles (line 103); when it succeeds main leaves the
\* try block and goes on to line 112
ValidateCollections(validated, closeMongo, serve) ==
    /\ main.pc = "validateCollections"
    /\ main' = IF validated THEN StartServer(main, serve)
               ELSE CatchConnectError(main, closeMongo, serve)
    /\ UNCHANGED <<tokenFile, boot>>
    /\ UNCHANGED <<tagVars, guardVars, bwVars, cacheVars, readVars, txVars, authVars,
                   userVars, envVars>>

\* closeMongo settles inside a closeApp call: Deno.exit(1) (part_012, line 58)
CloseMongoSettles ==
    /\ main.pc # "exited"
    /\ main.closing > 0
    /\ main' = [main EXCEPT !.pc = "exited", !.listening = FALSE, !.exitCode = 1]
    /\ UNCHANGED <<tokenFile, boot>>
    /\ UNCHANGED <<tagVars, guardVars, bwVars, cacheVars, readVars, txVars, authVars,
                   userVars, envVars>>

\* no startup is modelled: the file is absent and connectIgdb has not been called
BootInit == tokenFile = NoFile /\ boot = BootIdle /\ main = MainIdle

(***************************************************************************)
(* igdbAuth (api/middleware/igdbAuth.ts, and the version of                *)
(* unnamed/part_019), in front of search, getGame, getTags and createTags  *)
(* (api/routes.ts).  A request is a caller of ensureValidIgdbToken.        *)
(***************************************************************************)
Versions == {"igdbAuth.ts", "part_019"}

UNAVAILABLE == "IGDB service temporarily unavailable"

NotThrough == [version |-> "none", outcome |-> "none", message |-> ""]

\* the handler is called: await next()
CallsNext(version) == [version |-> version, outcome |-> "next", message |-> ""]

\* c.json({ error: "IGDB service temporarily unavailable" }, 503)
Answers503(version) == [version |-> version, outcome |-> "503", message |-> UNAVAILABLE]

\* the error of ensureValidIgdbToken leaves the middleware
Unhandled(version) == [version |-> version, outcome |-> "unhandled", message |-> ""]

\* a middleware without its try / catch
igdbAuthNoCatch(version, result, valid) ==
    IF result = "throw" THEN Unhandled(version)
    ELSE IF version = "igdbAuth.ts"
    THEN IF ~valid THEN Answers503(version) ELSE CallsNext(version)
    ELSE IF result # "true" THEN Answers503(version) ELSE CallsNext(version)

\* the middleware after await ensureValidIgdbToken(): igdbAuth.ts checks
\* isIgdbTokenValid() itself (line 21), part_019 the value returned (line 18);
\* the catch answers 503
igdbAuth(version, result, valid) ==
    IF result = "throw" THEN Answers503(version)
    ELSE IF version = "igdbAuth.ts"
    THEN IF ~valid THEN Answers503(version) ELSE CallsNext(version)
    ELSE IF result # "true" THEN Answers503(version) ELSE CallsNext(version)

\* ensureValidIgdbToken has returned or thrown to the middleware of request c,
\* whose continuation has not run yet
ContinuationPending(c) == callers[c].pc = "done" /\ auth[c].outcome = "none"

\* the continuation of the middleware of request c
Middleware(c) ==
    /\ ContinuationPending(c)
    /\ microtasks = <<>>
    /\ \E version \in Versions :
           auth' = [auth EXCEPT ![c] = igdbAuth(version, callers[c].result,
                                                isIgdbTokenValid)]
    /\ UNCHANGED <<tagVars, guardVars, bwVars, cacheVars, readVars, txVars, bootVars,
                   userVars, envVars>>

\* the continuations are run before the next event (a request, the answer of
\* the token endpoint) and before time passes
NoContinuationPending == \A c \in Callers : ~ContinuationPending(c)

AuthInit == auth = [c \in Callers |-> NotThrough]

(***************************************************************************)
(* deleteUser and promoteUser (handlers/users.ts) on the users collection  *)
(* (deleteUserByUsername, promoteUserToAdmin, getUserByUsername of         *)
(* unnamed/part_001), with register and login (handlers/auth.ts) as far as *)
(* they make user documents and tokens.                                    *)
(***************************************************************************)
\* the user documents ever made
MaxUserId == 3

Usernames == {"root", "ann"}

\* the :username of a request: a name that is registered, or was, or may be
TargetNames == Usernames

UserDocument(id, username, isadmin) ==
    [id |-> id, username |-> username, isadmin |-> isadmin]

\* sign({ sub, username, isadmin }) of login
TokenPayload(user) == [sub |-> user.id, username |-> user.username, isadmin |-> user.isadmin]

NoToken == [sub |-> 0, username |-> "", isadmin |-> FALSE]

NoUserReply ==
    [handler |-> "none", status |-> 0, message |-> "", jwtPayload |-> NoToken,
     username |-> ""]

UserReply(handler, status, message, jwtPayload, username) ==
    [handler |-> handler, status |-> status, message |-> message,
     jwtPayload |-> jwtPayload, username |-> username]

\* collection.findOne({ username }): the documents found, none or one
findByUsername(coll, username) == {u \in coll : u.username = username}

\* a deleteUser that lets any authenticated caller through
AnyCallerMayDelete(jwtPayload, username) == TRUE

\* !(jwtPayload.username !== username && !jwtPayload.isadmin)
MayDelete(jwtPayload, username) == ~(jwtPayload.username # username /\ ~jwtPayload.isadmin)

\* collection.deleteOne({ username })
deleteOneByUsername(coll, username) == coll \ findByUsername(coll, username)

\* an update that sets the flag to its opposite
toggleAdmin(coll, username) ==
    {IF u.username = username THEN [u EXCEPT !.isadmin = ~u.isadmin] ELSE u : u \in coll}

\* collection.updateOne({ username }, { $set: { isadmin: true } })
promoteUserToAdmin(coll, username) ==
    {IF u.username = username THEN [u EXCEPT !.isadmin = TRUE] ELSE u : u \in coll}

\* a promoteUser that lets any authenticated caller through
AnyCallerMayPromote(jwtPayload) == TRUE

\* !(!jwtPayload?.isadmin)
MayPromote(jwtPayload) == jwtPayload.isadmin

\* register: a user document that is no admin, unless the name is taken
Register(username) ==
    /\ lastUserId < MaxUserId
    /\ findByUsername(users, username) = {}
    /\ users' = users \cup {UserDocument(lastUserId + 1, username, FALSE)}
    /\ lastUserId' = lastUserId + 1
    /\ UNCHANGED <<tokens, promoting, userReply>>
    /\ UNCHANGED <<tagVars, guardVars, bwVars, cacheVars, readVars, txVars, bootVars,
                   authVars, envVars>>

\* login: an access token with the user's name and flag as they are now
Login(user) ==
    /\ user \in users
    /\ tokens' = tokens \cup {TokenPayload(user)}
    /\ UNCHANGED <<users, lastUserId, promoting, userReply>>
    /\ UNCHANGED <<tagVars, guardVars, bwVars, cacheVars, readVars, txVars, bootVars,
                   authVars, envVars>>

\* The `sub` of a token is the _id of the user document, and createTags stores it
\* as the userId of the rows: the ids 1, 2, ... are the users "A", "B", ...
SubKeys == <<"A", "B", "C", "D", "E">>

\* a deleteUser that also removes the rows of the deleted users
DeleteUserAndRows(jwtPayload, username) ==
    /\ jwtPayload \in tokens
    /\ IF ~MayDelete(jwtPayload, username)
       THEN /\ userReply' = UserReply("deleteUser", 403,
                                      "You are not authorized to delete this user.",
                                      jwtPayload, username)
            /\ UNCHANGED <<users, userContributions>>
       ELSE /\ users' = deleteOneByUsername(users, username)
            /\ userContributions' =
                   {d \in userContributions :
                       \A u \in findByUsername(users, username) : d.userId # SubKeys[u.id]}
            /\ userReply' = UserReply("deleteUser", 200, "User deleted successfully",
                                      jwtPayload, username)
    /\ UNCHANGED <<lastUserId, tokens, promoting>>
    /\ UNCHANGED <<now, mediaTags, lastResult>>
    /\ UNCHANGED <<guardVars, bwVars, cacheVars, readVars, txVars, bootVars,
                   authVars, envVars>>

\* deleteUser, behind jwtAuth
DeleteUser(jwtPayload, username) ==
    /\ jwtPayload \in tokens
    /\ IF ~MayDelete(jwtPayload, username)
       THEN /\ userReply' = UserReply("deleteUser", 403,
                                      "You are not authorized to delete this user.",
                                      jwtPayload, username)
            /\ UNCHANGED users
       ELSE /\ users' = deleteOneByUsername(users, username)
            /\ userReply' = UserReply("deleteUser", 200, "User deleted successfully",
                                      jwtPayload, username)
    /\ UNCHANGED <<lastUserId, tokens, promoting>>
    /\ UNCHANGED <<tagVars, guardVars, bwVars, cacheVars, readVars, txVars, bootVars,
                   authVars, envVars>>

\* promoteUser, behind jwtAuth, up to its response or to its updateOne
PromoteUser(jwtPayload, username) ==
    /\ jwtPayload \in tokens
    /\ [jwtPayload |-> jwtPayload, username |-> username] \notin promoting
    /\ IF ~MayPromote(jwtPayload)
       THEN /\ userReply' = UserReply("promoteUser", 403, "Only admins can promote users.",
                                      jwtPayload, username)
            /\ UNCHANGED promoting
       ELSE IF findByUsername(users, username) = {}
       THEN /\ userReply' = UserReply("promoteUser", 404, "User with username not found.",
                                     jwtPayload, username)
            /\ UNCHANGED promoting
       ELSE IF \E user \in findByUsername(users, username) : user.isadmin
       THEN /\ userReply' = UserReply("promoteUser", 400, "User is already an admin.",
                                      jwtPayload, username)
            /\ UNCHANGED promoting
       ELSE /\ promoting' = promoting \cup {[jwtPayload |-> jwtPayload,
                                              username |-> username]}
            /\ UNCHANGED userReply
    /\ UNCHANGED <<users, lastUserId, tokens>>
    /\ UNCHANGED <<tagVars, guardVars, bwVars, cacheVars, readVars, txVars, bootVars,
                   authVars, envVars>>

\* promoteUserToAdmin and the response of promoteUser
PromoteUpdate(request) ==
    /\ request \in promoting
    /\ promoting' = promoting \ {request}
    /\ IF findByUsername(users, request.username) = {}
       THEN /\ userReply' = UserReply("promoteUser", 404, "User with username not found.",
                                      request.jwtPayload, request.username)
            /\ UNCHANGED users
       ELSE /\ users' = promoteUserToAdmin(users, request.username)
            /\ userReply' = UserReply("promoteUser", 200,
                                      "User promoted to admin successfully",
                                      request.jwtPayload, request.username)
    /\ UNCHANGED <<lastUserId, tokens>>
    /\ UNCHANGED <<tagVars, guardVars, bwVars, cacheVars, readVars, txVars, bootVars,
                   authVars, envVars>>

\* no user yet
UserIdle ==
    /\ users = {}
    /\ lastUserId = 0
    /\ tokens = {}
    /\ promoting = {}
    /\ userReply = NoUserReply

\* an administrator, whose flag was set in the database, and a user
UserInit ==
    /\ users = {UserDocument(1, "root", TRUE), UserDocument(2, "ann", FALSE)}
    /\ lastUserId = 2
    /\ tokens = {}
    /\ promoting = {}
    /\ userReply = NoUserReply

(***************************************************************************)
(* getEnv and setEnv (config/config.ts) on the environment of the process. *)
(* Keys and values are sequences of characters.                            *)
(***************************************************************************)
\* keys: the empty one, a blank one, two names, and a name with a leading space
EnvKeys == {<<>>, <<" ">>, <<"K">>, <<"L">>, <<" ", "K">>}

\* values: the empty one, a blank one, a word, and the word with a trailing space
EnvValues == {<<>>, <<" ">>, <<"v">>, <<"v", " ">>}

NotSet == [set |-> FALSE, value |-> <<>>]

IsSet(value) == [set |-> TRUE, value |-> value]

\* the second argument of getEnv: left out, or a value
NoDefault == [given |-> FALSE, value |-> <<>>]

Default(value) == [given |-> TRUE, value |-> value]

DefaultArguments == {NoDefault, Default(<<>>), Default(<<"w">>)}

\* defaultValue: string = ''
defaultValue(argument) == IF argument.given THEN argument.value ELSE <<>>

\* a getEnv without its second parameter
getEnvNoDefault(environment, key, argument) ==
    IF environment[key].set THEN environment[key].value ELSE <<>>

\* Deno.env.get(key) ?? defaultValue
getEnv(environment, key, argument) ==
    IF environment[key].set THEN environment[key].value ELSE defaultValue(argument)

\* a setEnv that stores the trimmed value
setEnvTrimmed(environment, key, value) ==
    IF trim(key) = <<>> \/ trim(value) = <<>> THEN environment
    ELSE [environment EXCEPT ![key] = IsSet(trim(value))]

\* setEnv: the two early returns, then Deno.env.set(key, value)
setEnv(environment, key, value) ==
    IF trim(key) = <<>> THEN environment
    ELSE IF trim(value) = <<>> THEN environment
    ELSE [environment EXCEPT ![key] = IsSet(value)]

NoSetEnv == [called |-> FALSE, key |-> <<>>, value |-> <<>>]

NoGetEnv == [called |-> FALSE, key |-> <<>>, defaultValue |-> NoDefault, value |-> <<>>]

\* the call setEnv(key, value)
SetEnv(key, value) ==
    /\ env' = setEnv(env, key, value)
    /\ lastSetEnv' = [called |-> TRUE, key |-> key, value |-> value]
    /\ UNCHANGED lastGetEnv
    /\ UNCHANGED <<tagVars, guardVars, bwVars, cacheVars, readVars, txVars, bootVars,
                   authVars, userVars>>

\* the call getEnv(key) or getEnv(key, defaultValue)
GetEnv(key, argument) ==
    /\ lastGetEnv' = [called |-> TRUE, key |-> key, defaultValue |-> argument,
                      value |-> getEnv(env, key, argument)]
    /\ UNCHANGED <<env, lastSetEnv>>
    /\ UNCHANGED <<tagVars, guardVars, bwVars, cacheVars, readVars, txVars, bootVars,
                   authVars, userVars>>

\* the environment is not modelled: nothing is set, nothing was called
EnvIdle ==
    /\ env = [key \in EnvKeys |-> NotSet]
    /\ lastSetEnv = NoSetEnv
    /\ lastGetEnv = NoGetEnv

\* the environment the process starts with: K is not set, or set by the shell or
\* the .env file, possibly to the empty string; the other variables are not set
EnvInit ==
    /\ \E start \in {NotSet, IsSet(<<>>), IsSet(<<"w">>)} :
           env = [key \in EnvKeys |-> IF key = <<"K">> THEN start ELSE NotSet]
    /\ lastSetEnv = NoSetEnv
    /\ lastGetEnv = NoGetEnv

ExtInit == BootInit /\ AuthInit /\ UserIdle /\ EnvIdle

(***************************************************************************)
(* Initial states and specifications.                                      *)
(***************************************************************************)
\* no submission is in progress
SessionInit == sessions = [s \in Sessions |-> IdleSession]

TagInit ==
    /\ now = 0
    /\ userContributions = {}
    /\ mediaTags = {}
    /\ lastResult = NoCall(0, "")

\* the token is missing and nobody has called the guard
GuardInit ==
    /\ accessToken = ""
    /\ expiresAt = NoExpiration
    /\ tokenRefreshPromise = NoPromise
    /\ promises = <<>>
    /\ callers = [c \in Callers |->
                     [pc |-> "idle", result |-> "none", awaited |-> <<>>, epoch |-> 0]]
    /\ microtasks = <<>>
    /\ exchangeCalls = 0

FilterIdle ==
    /\ bwInput = <<>>
    /\ bwResult = "none"

Init ==
    TagInit /\ GuardInit /\ FilterIdle /\ CacheInit /\ ReadInit /\ SessionInit /\ ExtInit

\* the tags containsBadWords is applied to: the examples of its documentation and
\* others like them, and every string of up to MaxTagLen characters of FilterChars
RAPE  == <<"R", "A", "P", "E">>
rAtp3 == <<"r", "@", "p", "3">>
grape == <<"g", "r", "a", "p", "e">>

SampleTags ==
    { r4p3, RAPE, rAtp3, grape, story, bandits,
      <<"r", " ", "a", "-", "p", ".", "e">>,
      <<"t", "h", "e", "r", "a", "p", "i", "s", "t">>,
      <<"$", "p", "!", "c", "y">>,
      <<"G", "0", "0", "K">>,
      <<"k", "|", "k", "3">>,
      <<"p", "a", "r", "e">> }

FilterChars == {"r", "A", "p", "3", "@", " "}

GeneratedTags == UNION {[1..n -> FilterChars] : n \in 0..MaxTagLen}

FilterInputs ==
    {<<tag>> : tag \in GeneratedTags}
        \cup UNION {[1..n -> SampleTags] : n \in 0..MaxTags}

FilterInit ==
    /\ TagInit
    /\ GuardInit
    /\ bwInput \in FilterInputs
    /\ bwResult = "none"
    /\ CacheInit
    /\ ReadInit
    /\ SessionInit
    /\ ExtInit

\* the call containsBadWords(bwInput)
Check ==
    /\ bwResult = "none"
    /\ bwResult' = IF containsBadWords(bwInput) THEN "true" ELSE "false"
    /\ UNCHANGED bwInput
    /\ UNCHANGED <<tagVars, guardVars, cacheVars, readVars, txVars, extVars>>

FilterNext == Check

FilterSpec == FilterInit /\ [][FilterNext]_vars

\* the tag system, one request at a time
Next ==
    \/ Tick
    \/ \E req \in Requests : CreateTags(req)

Spec == Init /\ [][Next]_vars

\* the token guard under concurrent calls
GuardNext ==
    \/ \E c \in Callers : Call(c)
    \/ \E p \in DOMAIN promises : \E outcome \in Outcomes : FetchRespond(p, outcome)
    \/ Resume
    \/ GuardTick

GuardSpec == Init /\ [][GuardNext]_vars

\* the token guard with the scheduling the runtime gives: a continuation queued
\* on the event loop is run.  fetch (utils/igdb.ts, line 17) is called without a
\* signal or a timeout, so nothing obliges a pending exchange to settle.
FairGuardSpec == Init /\ [][GuardNext]_vars /\ WF_vars(Resume)

\* the token endpoint answers some pending exchange
EndpointAnswers ==
    \E p \in DOMAIN promises : \E outcome \in Outcomes : FetchRespond(p, outcome)

\* the same with a token endpoint that answers every request, with a token or
\* with a failure
AnsweringGuardSpec == FairGuardSpec /\ WF_vars(EndpointAnswers)

\* the startup: connectIgdb is called once, on whatever file the last run left
StartupInit ==
    /\ TagInit /\ GuardInit /\ FilterIdle /\ CacheInit /\ ReadInit /\ SessionInit
    /\ tokenFile \in TokenFiles
    /\ boot = BootIdle
    /\ main = MainIdle
    /\ AuthInit
    /\ UserIdle
    /\ EnvIdle

StartupNext ==
    \/ LoadToken
    \/ \E outcome \in BootOutcomes : ExchangeResponds(outcome)
    \/ \E written \in BOOLEAN : SaveToken(written)
    \/ BootTick

StartupSpec == StartupInit /\ [][StartupNext]_vars

\* main: connectIgdb and connectMongo side by side, then the indexes, the
\* validation and the server
MainNext ==
    \/ main.pc # "exited" /\ StartupNext
    \/ \E connected \in BOOLEAN : ConnectMongo(connected)
    \/ \E closeMongo \in CloseMongoCalls : \E serve \in ServeCalls :
           ServicesSettle(closeMongo, serve)
    \/ \E created \in BOOLEAN : \E closeMongo \in CloseMongoCalls : \E serve \in ServeCalls :
           CreateIndexes(created, closeMongo, serve)
    \/ \E validated \in BOOLEAN : \E closeMongo \in CloseMongoCalls :
       \E serve \in ServeCalls : ValidateCollections(validated, closeMongo, serve)
    \/ CloseMongoSettles

MainSpec == StartupInit /\ [][MainNext]_vars

\* requests through igdbAuth: three, which may arrive together
AuthRequests == {1, 2, 3}

AuthNext ==
    \/ \E c \in AuthRequests : NoContinuationPending /\ Call(c)
    \/ \E p \in DOMAIN promises : \E outcome \in Outcomes :
           NoContinuationPending /\ FetchRespond(p, outcome)
    \/ Resume
    \/ \E c \in Callers : Middleware(c)
    \/ NoContinuationPending /\ GuardTick

AuthSpec == Init /\ [][AuthNext]_vars

\* the user accounts
UsersInit ==
    /\ TagInit /\ GuardInit /\ FilterIdle /\ CacheInit /\ ReadInit /\ SessionInit
    /\ BootInit /\ AuthInit /\ EnvIdle
    /\ UserInit

UsersNext ==
    \/ \E username \in Usernames : Register(username)
    \/ \E user \in users : Login(user)
    \/ \E jwtPayload \in tokens : \E username \in TargetNames :
           DeleteUser(jwtPayload, username)
    \/ \E jwtPayload \in tokens : \E username \in TargetNames :
           PromoteUser(jwtPayload, username)
    \/ \E request \in promoting : PromoteUpdate(request)

UsersSpec == UsersInit /\ [][UsersNext]_vars

\* what the holders of a token submit for the media item
AccountPayloads == { <<StringItem(story)>>, <<StringItem(bandits)>> }

\* createTags behind jwtAuth: the userId is the `sub` of the token
SubmitTags(jwtPayload, tags) ==
    /\ jwtPayload \in tokens
    /\ CreateTags([sub |-> SubKeys[jwtPayload.sub], id |-> "rdr2", json |-> TRUE,
                   isArray |-> TRUE, tags |-> tags])

\* the accounts and the tags of their users: users log in and submit tags, the
\* account of ann is deleted, by ann or by the administrator, and the name is
\* registered again, and the tags of the media item are read
AccountsNext ==
    \/ \E username \in {"ann"} : Register(username)
    \/ \E user \in users : Login(user)
    \/ \E jwtPayload \in tokens : \E username \in {"ann"} :
           DeleteUser(jwtPayload, username)
    \/ \E jwtPayload \in tokens : \E tags \in AccountPayloads : SubmitTags(jwtPayload, tags)
    \/ GetTags([id |-> "rdr2", count |-> NoQuery])

AccountsSpec == UsersInit /\ [][AccountsNext]_vars

\* the configuration
ConfigInit ==
    /\ TagInit /\ GuardInit /\ FilterIdle /\ CacheInit /\ ReadInit /\ SessionInit
    /\ BootInit /\ AuthInit /\ UserIdle
    /\ EnvInit

ConfigNext ==
    \/ \E key \in EnvKeys : \E value \in EnvValues : SetEnv(key, value)
    \/ \E key \in EnvKeys : \E argument \in DefaultArguments : GetEnv(key, argument)

ConfigSpec == ConfigInit /\ [][ConfigNext]_vars

\* the catalog caches under concurrent requests
CacheNext ==
    \/ \E bodyQuery \in SearchBodies : Search(bodyQuery)
    \/ \E idParam \in GameIdParams : GetGame(idParam)
    \/ \E f \in BagToSet(fetching) : \E outcome \in CatalogOutcomes : SearchResponds(f, outcome)
    \/ \E f \in BagToSet(fetching) : \E outcome \in CatalogOutcomes : GetGameResponds(f, outcome)
    \/ CacheTick

CacheSpec == Init /\ [][CacheNext]_vars

\* submissions and readings of the tag counts, one request at a time
ReadNext ==
    \/ \E req \in CountedRequests : CreateTags(req)
    \/ \E query \in TagQueries : GetTags(query)

ReadSpec == Init /\ [][ReadNext]_vars

\* two submissions of one user for one media item, interleaved
InterleavedInit ==
    /\ now = 0
    /\ \E tags \in EarlierSubmissions :
           /\ userContributions = StoreAfter(tags)
           /\ mediaTags = RecomputeMediaTags({}, StoreAfter(tags), Undefined, 0)
    /\ lastResult = NoCall(0, "")
    /\ GuardInit
    /\ FilterIdle
    /\ CacheInit
    /\ ReadInit
    /\ sessions = [s \in Sessions |-> IdleSession]
    /\ ExtInit

InterleavedNext ==
    \/ \E s \in Sessions : \E req \in InterleavedRequests : Begin(s, req)
    \/ \E s \in Sessions : Find(s)
    \/ \E s \in Sessions : DeleteMany(s)
    \/ \E s \in Sessions : UpdateMany(s)
    \/ \E s \in Sessions : InsertMany(s)
    \/ \E s \in Sessions : Aggregate(s)
    \/ \E s \in Sessions : UpdateOne(s)
    \/ SessionTick

InterleavedSpec == InterleavedInit /\ [][InterleavedNext]_vars

\* the interleaved submissions, and then submissions handled one at a time
ReconcileNext ==
    \/ \E s \in Sessions : \E req \in RacingRequests : Begin(s, req)
    \/ \E s \in Sessions : \E req \in LaterRequests : BeginAlone(s, req)
    \/ \E s \in Sessions : Find(s)
    \/ \E s \in Sessions : DeleteMany(s)
    \/ \E s \in Sessions : UpdateMany(s)
    \/ \E s \in Sessions : InsertMany(s)
    \/ \E s \in Sessions : Aggregate(s)
    \/ \E s \in Sessions : UpdateOne(s)
    \/ SessionTick

ReconcileSpec == InterleavedInit /\ [][ReconcileNext]_vars

\* one submission, handled alone, whose storage calls may fail
FailureNext ==
    \/ \E req \in InterleavedRequests : Begin("s1", req)
    \/ Find("s1")
    \/ DeleteMany("s1")
    \/ UpdateMany("s1")
    \/ InsertMany("s1")
    \/ Aggregate("s1")
    \/ UpdateOne("s1")
    \/ StorageFails("s1")
    \/ SessionTick

FailureSpec == InterleavedInit /\ [][FailureNext]_vars

\* a tag list that repeats a tag, once with surrounding whitespace
RepeatingPayload ==
    <<StringItem(<<" ">> \o story \o <<" ">>), StringItem(story), NumberItem>>

\* submissions of one user for one media item that share tags; the only one
\* that comes down to the single tag story is the repeating one
UniqueRequests ==
    {req \in Requests :
        /\ req.sub = "A" /\ req.id = "rdr2" /\ req.json /\ req.isArray
        /\ req.tags \in { RepeatingPayload,
                          <<StringItem(story), StringItem(action), StringItem(western)>>,
                          <<StringItem(action), StringItem(bandits)>> }}

\* two such submissions, interleaved, after an earlier one handled alone
UniqueNext ==
    \/ \E s \in Sessions : \E req \in UniqueRequests : Begin(s, req)
    \/ \E s \in Sessions : Find(s)
    \/ \E s \in Sessions : DeleteMany(s)
    \/ \E s \in Sessions : UpdateMany(s)
    \/ \E s \in Sessions : InsertMany(s)
    \/ \E s \in Sessions : Aggregate(s)
    \/ \E s \in Sessions : UpdateOne(s)
    \/ SessionTick

UniqueSpec == InterleavedInit /\ [][UniqueNext]_vars

(***************************************************************************)
(* Properties of the tag system under Spec: requests are handled one at a  *)
(* time, each CreateTags step being one completed submission.              *)
(***************************************************************************)
Slugs == PathValues \cup {Undefined}

\* the live rows of one (user, mediaSlug, mediaType) tuple
LiveRows(coll, u, slug) ==
    {d \in coll : d.userId = u /\ d.mediaSlug = slug /\ d.mediaType = VIDEO_GAME}

LiveTags(coll, u, slug) == {d.tag : d \in LiveRows(coll, u, slug)}

\* the rows of a media item, whoever owns them
MediaRows(coll, slug) == {d \in coll : d.mediaSlug = slug /\ d.mediaType = VIDEO_GAME}

MediaRecords(coll, slug) == {m \in coll : m.mediaSlug = slug /\ m.mediaType = VIDEO_GAME}

\* the media item a request is applied to
SlugOf(req) == param(req, "slug")

\* this step is a successful submission: a request that went through
\* processUserTags and was answered 200
Submission == lastResult'.status = 200 /\ now' = now

\* who submitted, to which media item, and the distinct tags submitted
Submitter == lastResult'.userId

Media == lastResult'.gameId

Submitted == Range(lastResult'.tags)

\* the submitter's live rows and tags before and after the step
RowsBefore == LiveRows(userContributions, Submitter, Media)

RowsAfter == LiveRows(userContributions', Submitter, Media)

TagsBefore == LiveTags(userContributions, Submitter, Media)

TagsAfter == LiveTags(userContributions', Submitter, Media)

\* C1: after each completed submission (and so in every state of the sequential
\* system) every (user, mediaSlug, mediaType) tuple has at most 3 live rows.
C1_AtMostThreeLiveRows ==
    \A d \in userContributions :
        Cardinality({e \in userContributions :
                        /\ e.userId = d.userId
                        /\ e.mediaSlug = d.mediaSlug
                        /\ e.mediaType = d.mediaType}) <= 3

\* a submission that left its user three rows, one of them new, after deleting one
C1_Witness ==
    /\ lastResult.status = 200
    /\ lastResult.deleted >= 1
    /\ lastResult.inserted >= 1
    /\ \E u \in Users : \E slug \in Slugs :
           Cardinality(LiveRows(userContributions, u, slug)) = 3

\* C2: for every media item, the mediaTags collection holds no record when no live
\* row of any user bears a tag for it, and otherwise exactly one record, whose tags
\* are the distinct tags of the item's live rows across all users.
C2_AggregateIsDistinctUnion ==
    \A slug \in Slugs :
        LET live == {d.tag : d \in MediaRows(userContributions, slug)}
            records == MediaRecords(mediaTags, slug)
        IN  IF live = {} THEN records = {}
            ELSE /\ Cardinality(records) = 1
                 /\ \A m \in records : m.tags = live

\* two users hold different tag sets with a tag in common, the last submission
\* deleted a row, and the record is the union of what is left
C2_Witness ==
    /\ lastResult.status = 200
    /\ lastResult.deleted >= 1
    /\ \E slug \in Slugs :
           LET tagsA == LiveTags(userContributions, "A", slug)
               tagsB == LiveTags(userContributions, "B", slug)
           IN  /\ tagsA \cap tagsB # {}
               /\ tagsA \ tagsB # {}
               /\ tagsB \ tagsA # {}
               /\ \E m \in mediaTags : m.mediaSlug = slug /\ m.tags = tagsA \cup tagsB

\* the submitter holds three live tags and submits one that is not among them
FourthTag == Cardinality(TagsBefore) = 3 /\ Submitted \ TagsBefore # {}

\* the submitter's rows that the step removes, and those whose tag stays live
Evicted == {d \in RowsBefore : d.tag \notin TagsAfter}

Survivors == {d \in RowsBefore : d.tag \in TagsAfter}

Resubmits == Submitted \cap TagsBefore # {}

FirstSubmission ==
    [sub |-> "A", id |-> "rdr2", json |-> TRUE, isArray |-> TRUE,
     tags |-> <<StringItem(story), StringItem(action), StringItem(western)>>]

SecondSubmission ==
    [sub |-> "A", id |-> "rdr2", json |-> TRUE, isArray |-> TRUE,
     tags |-> <<StringItem(story), StringItem(bandits)>>]

\* the rows are exactly those of user A for the media item, one per tag of tags,
\* and the item's record holds exactly tags
StoreHolds(rows, records, slug, tags) ==
    /\ rows = LiveRows(rows, "A", slug)
    /\ Cardinality(rows) = Cardinality(tags)
    /\ {d.tag : d \in rows} = tags
    /\ \E m \in records : records = {m} /\ m.mediaSlug = slug /\ m.tags = tags

InFlight == {p \in DOMAIN promises : promises[p].status = "pending"}

\* the last promise caller c awaited
LastAwaited(c) == callers[c].awaited[Len(callers[c].awaited)]

\* the calls that found the credential invalid while e refreshes had settled: calls
\* made with no response of the token endpoint between them
ConcurrentCalls(e) ==
    {c \in Callers : callers[c].awaited # <<>> /\ callers[c].epoch = e}

\* the refreshes that the calls of G awaited, the ones they started among them
RefreshesOf(G) == UNION {Range(callers[c].awaited) : c \in G}

\* the exchange of refresh p succeeded with a credential that is usable
Succeeded(p) ==
    promises[p].status = "fulfilled" /\ promises[p].expires_in > FIVE_MINUTES

\* C3: when calls made concurrently while the credential is invalid have all
\* returned and every credential exchange they awaited succeeded with a usable
\* credential, they awaited one and the same exchange and each returned true (the
\* credential being valid at its return); if they are all the calls there are,
\* exactly one exchange call was made.
C3_OneExchangeAllValid ==
    \A e \in 0..Len(promises) :
        LET G == ConcurrentCalls(e)
        IN  ( /\ G # {}
              /\ \A c \in G : callers[c].pc = "done"
              /\ \A p \in RefreshesOf(G) : Succeeded(p) )
            => /\ Cardinality(RefreshesOf(G)) = 1
               /\ \A c \in G : callers[c].result = "true"
               /\ G = Callers => exchangeCalls = 1

\* all the callers called before any response, one exchange was made, it succeeded
\* and every call returned true
C3_Witness ==
    /\ ConcurrentCalls(0) = Callers
    /\ \A c \in Callers : callers[c].pc = "done" /\ callers[c].result = "true"
    /\ exchangeCalls = 1
    /\ Succeeded(1)
    /\ isIgdbTokenValid

\* C4 as stated: in every reachable state at most one credential exchange started
\* by ensureValidIgdbToken is in flight.
C4_AtMostOneInFlight == Cardinality(InFlight) <= 1

\* caller c has continued after the settlement of refresh p, which it awaited
ResumedFrom(c, p) ==
    /\ promises[p].status # "pending"
    /\ \E i \in 1..Len(callers[c].awaited) : callers[c].awaited[i] = p
    /\ ~(c \in Range(microtasks) /\ LastAwaited(c) = p)

C9_EvasionsBlocked ==
    (bwResult # "none" /\ Range(bwInput) \cap {r4p3, RAPE, rAtp3} # {})
        => bwResult = "true"

\* each of the three inputs has been classified, and as blocked
C9_Witness ==
    /\ bwInput \in {<<r4p3>>, <<RAPE>>, <<rAtp3>>}
    /\ bwResult = "true"

\* C10 as stated: containsBadWords classifies "grape" as not blocked.
C10_GrapeNotBlocked ==
    (bwResult # "none" /\ bwInput = <<grape>>) => bwResult = "false"

\* C10 amended: containsBadWords classifies "grape" as blocked, as it does every
\* input one of whose tags contains, once normalised, a blocked word anywhere
\* inside it.
C10_GrapeBlocked ==
    /\ (bwResult # "none" /\ bwInput = <<grape>>) => bwResult = "true"
    /\ (bwResult # "none" /\ \E i \in 1..Len(bwInput) : \E b \in 1..Len(badWords) :
            \E pre, post \in 0..Len(normalizeTag(bwInput[i])) :
                /\ pre + Len(badWords[b]) + post = Len(normalizeTag(bwInput[i]))
                /\ SubSeq(normalizeTag(bwInput[i]), pre + 1, pre + Len(badWords[b]))
                       = badWords[b])
           => bwResult = "true"

\* "grape" has been classified, and as blocked
C10_Witness == bwInput = <<grape>> /\ bwResult = "true"

\* what the three steps make of one character: nothing when it is removed, else
\* the one character it becomes
NormalFormOfChar(char) ==
    LET lower == IF \E i \in 1..Len(UpperCaseLetters) : UpperCaseLetters[i] = char
                 THEN LowerCaseLetters[CHOOSE i \in 1..Len(UpperCaseLetters) :
                                           UpperCaseLetters[i] = char]
                 ELSE char
    IN  IF lower \in {"0", "1", "3", "4", "5", "7", "@", "$", "!", "|"}
        THEN <<CASE lower = "0" -> "o" [] lower = "1" -> "i" [] lower = "3" -> "e"
                 [] lower = "4" -> "a" [] lower = "5" -> "s" [] lower = "7" -> "t"
                 [] lower = "@" -> "a" [] lower = "$" -> "s" [] lower = "!" -> "i"
                 [] lower = "|" -> "i">>
        ELSE IF \E i \in 1..Len(LowerCaseLetters) : LowerCaseLetters[i] = lower
        THEN <<lower>>
        ELSE IF lower \in {"2", "6", "8", "9"} THEN <<lower>>
        ELSE <<>>

RECURSIVE NormalForm(_)
NormalForm(tag) ==
    IF tag = <<>> THEN <<>> ELSE NormalFormOfChar(Head(tag)) \o NormalForm(Tail(tag))

\* word occurs in text at some position
OccursIn(word, text) ==
    \E pre \in 0..Len(text) :
        /\ pre + Len(word) <= Len(text)
        /\ SubSeq(text, pre + 1, pre + Len(word)) = word

Blocklist ==
    { <<"n", "i", "g", "g", "e", "r">>, <<"f", "a", "g", "g", "o", "t">>,
      <<"k", "i", "k", "e">>, <<"c", "h", "i", "n", "k">>, <<"s", "p", "i", "c">>,
      <<"g", "o", "o", "k">>, <<"r", "a", "p", "e">>,
      <<"r", "a", "p", "i", "s", "t">> }

\* C11: for every sequence of tags, containsBadWords returns true exactly when some
\* tag, lowercased, then stripped of every character outside [a-z0-9@!$|], then
\* mapped through the leet table, contains a blocklist term as a substring.
C11_BlockedIffNormalFormContainsTerm ==
    bwResult # "none" =>
        (bwResult = "true" <=>
            \E i \in 1..Len(bwInput) : \E word \in Blocklist :
                OccursIn(word, NormalForm(bwInput[i])))

\* a list of two tags, the second of which is blocked only through normalisation
\* (uppercase letters and leet digits), has been classified as blocked
C11_Witness ==
    /\ Len(bwInput) = 2
    /\ bwInput[1] = story
    /\ bwInput[2] = <<"G", "0", "0", "K">>
    /\ bwResult = "true"

\* a tag that survives all three steps without containing a term has been let through
C11_WitnessClean ==
    /\ bwInput = <<<<"p", "a", "r", "e">>>>
    /\ bwResult = "false"

(***************************************************************************)
(* Properties of the catalog caches under CacheSpec: requests of search    *)
(* and getGame interleave at their await of the catalog call.              *)
(***************************************************************************)
Caches == {"search", "getGame"}

CacheOf(handler) == IF handler = "search" THEN searchCache ELSE gameCache

CapacityOf(handler) ==
    IF handler = "search" THEN MAX_SEARCH_CACHE_SIZE ELSE MAX_GAME_CACHE_SIZE

\* C12: in every reachable state the search cache and the game cache each
\* hold at most their configured maximum number of entries, whatever the
\* interleaving of hits, misses, refreshes of expired entries and concurrent
\* misses
C12_CachesWithinCapacity ==
    \A handler \in Caches : Len(CacheOf(handler)) <= CapacityOf(handler)

\* a full search cache into which a further response has just been stored
\* while another request for the same key is still awaiting the catalog
C12_Witness ==
    /\ Len(searchCache) = MAX_SEARCH_CACHE_SIZE
    /\ upstreamCalls > MAX_SEARCH_CACHE_SIZE
    /\ lastReply.handler = "search" /\ lastReply.status = 200 /\ lastReply.fetched
    /\ searchCache[Len(searchCache)].key = lastReply.key
    /\ BagIn([handler |-> "search", key |-> lastReply.key], fetching)
    /\ now = CACHE_TTL

\* the step in which a request of the handler stores the catalog's data
Stores(handler) ==
    /\ BagCardinality(fetching') < BagCardinality(fetching)
    /\ lastReply'.handler = handler
    /\ lastReply'.status = 200
    /\ lastReply'.fetched

StoredEntry == [key |-> lastReply'.key, data |-> lastReply'.data, time |-> now]

\* C13: storing a query the cache does not hold appends it as the most recent
\* entry; if the cache was at capacity exactly its first-inserted entry is
\* evicted, otherwise none is; so capacity+1 distinct queries inserted into
\* an empty cache evict the first-inserted one and nothing else
C13_EvictsExactlyTheFirstInserted ==
    [][\A handler \in Caches :
          (Stores(handler) /\ ~MapHas(CacheOf(handler), lastReply'.key)) =>
              CacheOf(handler)' =
                  Append(IF Len(CacheOf(handler)) >= CapacityOf(handler)
                         THEN Tail(CacheOf(handler))
                         ELSE CacheOf(handler),
                         StoredEntry)]_vars

\* capacity+1 distinct search queries were answered by the catalog one after
\* the other: the cache holds the last two, in their order of insertion
C13_Witness ==
    /\ upstreamCalls = MAX_SEARCH_CACHE_SIZE + 1
    /\ fetching = EmptyBag
    /\ gameCache = <<>>
    /\ Len(searchCache) = MAX_SEARCH_CACHE_SIZE
    /\ MapKeys(searchCache)[1] = searchCacheKey(<<"b">>)
    /\ MapKeys(searchCache)[Len(searchCache)] = searchCacheKey(<<"fields", " ", "a">>)
    /\ ~MapHas(searchCache, searchCacheKey(<<"a">>))
    /\ lastReply = Reply("search", searchCacheKey(<<"fields", " ", "a">>), 200,
                         CatalogData(searchCacheKey(<<"fields", " ", "a">>), now), TRUE)

HasEntry(handler, key) == \E i \in 1..Len(CacheOf(handler)) : CacheOf(handler)[i].key = key

EntryOf(handler, key) ==
    CacheOf(handler)[CHOOSE i \in 1..Len(CacheOf(handler)) : CacheOf(handler)[i].key = key]

YoungerThanTTL(handler, key) ==
    HasEntry(handler, key) /\ now - EntryOf(handler, key).time < CACHE_TTL

\* the step in which request f starts its catalog call
StartsCall(f) == fetching' = fetching (+) SetToBag({f})

\* the step in which a request is answered without a catalog call
AnswersFromCache ==
    /\ lastReply' # lastReply
    /\ lastReply'.status = 200
    /\ ~lastReply'.fetched

\* the step in which a request arrives: no catalog call ends and no time passes
RequestArrives ==
    /\ now' = now
    /\ BagCardinality(fetching') >= BagCardinality(fetching)
    /\ <<fetching', lastReply'>> # <<fetching, lastReply>>

\* C14: a search or getGame request whose key has an entry younger than the
\* TTL is answered with the entry's payload and makes no catalog call; a
\* request whose entry is as old as the TTL or older makes a catalog call.
\* Stated on the steps: a request that is not refused for its empty body either
\* starts a catalog call or is answered from the cache; it starts a call only
\* if its key has no entry younger than the TTL; it is answered from the cache
\* only if its key has one, and then with that entry's payload and without a
\* call
C14_FreshServedStaleFetched ==
    [][RequestArrives =>
          IF fetching' # fetching
          THEN \E f \in BagToSet(fetching') :
                   /\ StartsCall(f)
                   /\ ~YoungerThanTTL(f.handler, f.key)
                   /\ upstreamCalls' = upstreamCalls + 1
                   /\ lastReply' = lastReply
          ELSE IF AnswersFromCache
          THEN /\ YoungerThanTTL(lastReply'.handler, lastReply'.key)
               /\ lastReply'.data = EntryOf(lastReply'.handler, lastReply'.key).data
               /\ upstreamCalls' = upstreamCalls
          ELSE /\ lastReply'.status = 400
               /\ lastReply'.handler = "search"
               /\ upstreamCalls' = upstreamCalls]_vars

\* a getGame request answered from an entry one minute younger than the TTL
C14_Witness ==
    /\ now = CACHE_TTL - 1
    /\ HasEntry("getGame", <<"1">>)
    /\ EntryOf("getGame", <<"1">>).time = 0
    /\ lastReply = Reply("getGame", <<"1">>, 200, EntryOf("getGame", <<"1">>).data, FALSE)
    /\ upstreamCalls = 1

\* a search request awaiting the catalog although its key has an entry: the
\* entry is exactly as old as the TTL
C14_WitnessStale ==
    /\ now = CACHE_TTL
    /\ HasEntry("search", searchCacheKey(<<"b">>))
    /\ EntryOf("search", searchCacheKey(<<"b">>)).time = 0
    /\ BagIn([handler |-> "search", key |-> searchCacheKey(<<"b">>)], fetching)
    /\ upstreamCalls = 2

FailedOutcomes == CatalogOutcomes \ {"ok"}

\* the step in which the catalog call of a request fails and the request is
\* answered
CatalogCallFails ==
    /\ BagCardinality(fetching') < BagCardinality(fetching)
    /\ \E f \in BagToSet(fetching) : \E outcome \in FailedOutcomes :
           SearchResponds(f, outcome) \/ GetGameResponds(f, outcome)

\* C15: when the catalog call of search or getGame fails (response not ok,
\* rejected fetch, body that is not JSON) the request is answered 502, neither
\* cache is modified, the stored credential is unchanged and no refresh of it
\* is started
C15_FailureLeavesCachesAndCredential ==
    [][CatalogCallFails =>
          /\ lastReply'.status = 502
          /\ lastReply'.fetched
          /\ searchCache' = searchCache
          /\ gameCache' = gameCache
          /\ accessToken' = accessToken
          /\ expiresAt' = expiresAt
          /\ tokenRefreshPromise' = tokenRefreshPromise
          /\ promises' = promises
          /\ exchangeCalls' = exchangeCalls]_vars

\* a getGame request answered 502 while both caches hold an entry
C15_Witness ==
    /\ lastReply = Reply("getGame", <<"N", "a", "N">>, 502, NoData, TRUE)
    /\ Len(searchCache) = 1
    /\ Len(gameCache) = 1
    /\ ~MapHas(gameCache, <<"N", "a", "N">>)
    /\ tokenRefreshPromise = NoPromise
    /\ exchangeCalls = 0

(***************************************************************************)
(* Rejected submissions under Spec.                                        *)
(***************************************************************************)
\* the step in which createTags answers with a client error
Rejection ==
    /\ now' = now
    /\ lastResult' # lastResult
    /\ lastResult'.status \in {400, 401}

\* C16: a createTags request rejected because tags is not an array, because
\* no non-empty string tag remains after trimming, because a tag is blocked by
\* the bad-word filter or because no user is authenticated writes nothing:
\* userContributions and mediaTags are exactly as before the request
C16_RejectionWritesNothing ==
    [][Rejection =>
          /\ lastResult'.message \in {"Invalid JSON body", "No tags provided",
                                      "Authentication required",
                                      "Tags contain inappropriate words"}
          /\ userContributions' = userContributions
          /\ mediaTags' = mediaTags]_vars

\* a submission with a blocked tag was rejected while the store holds rows
C16_Witness ==
    /\ lastResult.status = 400
    /\ lastResult.message = "Tags contain inappropriate words"
    /\ Cardinality(userContributions) = MaxContributions
    /\ mediaTags # {}

\* a submission without an authenticated user was rejected
C16_WitnessUnauthenticated ==
    /\ lastResult.status = 401
    /\ userContributions # {}
    /\ mediaTags # {}

\* a submission without a tags array, or with no tag left, was rejected
C16_WitnessNoTags ==
    /\ lastResult.status = 400
    /\ lastResult.message = "No tags provided"
    /\ userContributions # {}
    /\ mediaTags # {}

(***************************************************************************)
(* The tag counts under ReadSpec.                                          *)
(***************************************************************************)
\* the step in which getTags answers
TagsRead == lastTags' # lastTags

\* the tags recorded for the media item of the answer
RecordedTags == UNION {m.tags : m \in MediaRecords(mediaTags, lastTags'.slug)}

\* the number of live rows, of all users, bearing the tag for that media item
LiveCount(tag) ==
    Cardinality({d \in MediaRows(userContributions, lastTags'.slug) : d.tag = tag})

\* one entry per recorded tag with a live row, with its count
ExpectedEntries ==
    {[tag |-> tag, count |-> LiveCount(tag)] : tag \in {t \in RecordedTags : LiveCount(t) > 0}}

\* C17: getTags for a media item returns one entry per tag that is in the
\* media's mediaTags record and has a live contribution row, with the number
\* of live rows of all users bearing that tag for that media as its count; the
\* entries are in non-increasing order of count; with a positive limit n the
\* answer is the first n entries of such an order, or all if there are fewer
C17_CountsSortedAndLimited ==
    [][(TagsRead /\ lastTags'.status = 200) =>
          LET data == lastTags'.data
              limit == lastTags'.limit
          IN  /\ Range(data) \subseteq ExpectedEntries
              /\ \A i, j \in 1..Len(data) : i < j =>
                     data[i].tag # data[j].tag /\ data[i].count >= data[j].count
              /\ Len(data) = IF limit > 0 THEN Min(limit, Cardinality(ExpectedEntries))
                             ELSE Cardinality(ExpectedEntries)
              /\ \A entry \in ExpectedEntries \ Range(data) :
                     \A i \in 1..Len(data) : data[i].count >= entry.count]_vars

\* three tags counted, one of them borne by both users, and a limit of 2
\* (from ?count=2 or ?count=2.5): the answer is the tag counted twice and one of
\* the two counted once
C17_Witness ==
    /\ lastTags.status = 200
    /\ lastTags.limit = 2
    /\ Len(lastTags.data) = 2
    /\ lastTags.data[1] = [tag |-> story, count |-> 2]
    /\ lastTags.data[2] = [tag |-> western, count |-> 1]
    /\ Cardinality(userContributions) = 4

\* no record for the media item: 404
C17_WitnessNotFound == lastTags.status = 404 /\ lastTags.limit = 1 /\ mediaTags = {}

(***************************************************************************)
(* What a call of ensureValidIgdbToken comes to, under GuardSpec.          *)
(***************************************************************************)
\* the step in which the call of caller c ends
Returns(c) == callers[c].pc # "done" /\ callers'[c].pc = "done"

\* the refresh the call of c awaited last has failed
RefreshFailed(c) ==
    /\ callers'[c].awaited # <<>>
    /\ promises'[callers'[c].awaited[Len(callers'[c].awaited)]].status = "rejected"

\* C18 as stated: ensureValidIgdbToken returns true if a usable credential
\* exists after the call and returns false if the refresh failed.
C18_TrueIfUsableFalseIfFailed ==
    [][\A c \in Callers :
          Returns(c) =>
              /\ isIgdbTokenValid' => callers'[c].result = "true"
              /\ RefreshFailed(c) => callers'[c].result = "false"]_vars

\* the part of C18 about a usable credential, alone
C18_TrueIfUsable ==
    [][\A c \in Callers :
          (Returns(c) /\ isIgdbTokenValid') => callers'[c].result = "true"]_vars

\* the step in which the credential exchange of refresh p fails
ExchangeFails(p) == promises[p].status = "pending" /\ promises'[p].status = "rejected"

\* C19: a credential exchange of connectIgdb that fails (response not ok,
\* response without access_token, fetch rejecting) leaves IGDB_ACCESS_TOKEN and
\* IGDB_EXPIRES_AT exactly as they were before the call
C19_FailedExchangeKeepsCredential ==
    [][\A p \in DOMAIN promises :
          ExchangeFails(p) => accessToken' = accessToken /\ expiresAt' = expiresAt]_vars

\* an exchange failed after an earlier one had stored a credential, which is
\* still there
C19_Witness ==
    \E p, q \in DOMAIN promises :
        /\ p < q
        /\ promises[p].status = "fulfilled"
        /\ promises[q].status = "rejected"
        /\ accessToken = "token"
        /\ expiresAt = promises[p].expires_in
        /\ \A r \in DOMAIN promises : r > p => promises[r].status # "fulfilled"

(***************************************************************************)
(* The per-tuple bound under InterleavedSpec.                              *)
(***************************************************************************)
\* C20 as stated: when two createTags submissions of the same user for the same
\* media item interleave their load, delete, update and insert steps, the tuple
\* never has more than 3 live userContributions rows, neither during nor after
\* the submissions.
C20_AtMostThreeUnderInterleaving ==
    \A u \in Users : \A slug \in Slugs :
        Cardinality(LiveRows(userContributions, u, slug)) <= MaxContributions

\* the same after the submissions only: when no submission is in progress
C20_AtMostThreeWhenQuiet ==
    (\A s \in Sessions : sessions[s].pc \in {"idle", "done"})
        => \A u \in Users : \A slug \in Slugs :
               Cardinality(LiveRows(userContributions, u, slug)) <= MaxContributions

(***************************************************************************)
(* Submissions of different users under InterleavedSpec.                   *)
(***************************************************************************)
\* no createTags call is between its first and its last storage call
Quiet == \A s \in Sessions : sessions[s].pc \in {"idle", "done"}

\* both sessions carried a submission, each of another user, and both were
\* answered 200
DifferentUsersDone ==
    /\ \A s \in Sessions : sessions[s].pc = "done" /\ sessions[s].status = 200
    /\ sessions["s1"].userId # sessions["s2"].userId

\* the tags field of the mediaTags record of a media item; no record, no tag
RecordedTagsOf(slug) ==
    IF MediaRecords(mediaTags, slug) = {} THEN {}
    ELSE UNION {m.tags : m \in MediaRecords(mediaTags, slug)}

\* C21: whenever no submission for a media item is in progress, the tags of its
\* mediaTags record are exactly the distinct tags of the media's live
\* contribution rows, also after submissions of different users interleaved
\* their reconcile and recompute steps.
C21_MediaTagsEqualLiveUnionWhenQuiet ==
    Quiet => \A slug \in Slugs :
                 RecordedTagsOf(slug) = distinctTags(userContributions, slug)

\* the part of C21 on tags nobody holds: when two submissions of different users
\* have completed, the record has no tag without a live row
C21_NoTagWithoutLiveRow ==
    DifferentUsersDone =>
        \A slug \in Slugs : RecordedTagsOf(slug) \subseteq distinctTags(userContributions, slug)

\* the other direction: after submissions of different users, every held tag
\* is in the record
C21_EveryLiveTagRecorded ==
    DifferentUsersDone =>
        \A slug \in Slugs : distinctTags(userContributions, slug) \subseteq RecordedTagsOf(slug)

\* what the writes of session s alone make of the rows it loaded
OwnProduct(s) ==
    ApplyPlan(Range(sessions[s].existingContributions), sessions[s].plan,
              sessions[s].time).coll

\* all the rows of a user
RowsOfUser(coll, u) == {d \in coll : d.userId = u}

\* the sessions that take a step
Stepping == {s \in Sessions : sessions'[s] # sessions[s]}

\* C22: a createTags submission of one user never inserts, updates or deletes a
\* userContributions row of another user: every step that changes the rows of
\* a user is a step of a submission of that user, and once submissions of
\* different users to the same media item have completed, the rows of each user
\* are exactly what the writes of that user's own submission make of the rows
\* it loaded.
C22_OtherUsersRowsUntouched ==
    [][ /\ \A u \in Users :
               RowsOfUser(userContributions', u) # RowsOfUser(userContributions, u)
                   => \A s \in Stepping : sessions[s].userId = u
        /\ DifferentUsersDone' =>
               \A s \in Sessions :
                   LiveRows(userContributions', sessions'[s].userId, sessions'[s].gameId)
                       = ApplyPlan(Range(sessions'[s].existingContributions),
                                   sessions'[s].plan, sessions'[s].time).coll
      ]_vars

\* two submissions of different users to the same media item have completed
\* after interleaving (the recorded aggregate is the stale one of the first to
\* read), one having deleted and refreshed rows, the other having inserted
C22_Witness ==
    /\ DifferentUsersDone
    /\ sessions["s1"].gameId = sessions["s2"].gameId
    /\ \E s, t \in Sessions :
           /\ sessions[s].plan.contributionsToDeleteIds # {}
           /\ sessions[s].plan.contributionsToUpdateIds # {}
           /\ sessions[t].plan.contributionsToInsertFinal # <<>>
           /\ s # t
    /\ \A s \in Sessions :
           LiveRows(userContributions, sessions[s].userId, sessions[s].gameId) = OwnProduct(s)
    /\ RecordedTagsOf(Undefined) # distinctTags(userContributions, Undefined)

(***************************************************************************)
(* Termination of the token guard under FairGuardSpec.                     *)
(***************************************************************************)
\* caller c is inside ensureValidIgdbToken, at one of its two awaits
Blocked(c) == callers[c].pc \in {"line102", "line125"}

\* C23: every call to ensureValidIgdbToken eventually returns or raises: no
\* caller stays blocked at an await for ever.
C23_EveryCallEnds ==
    \A c \in Callers : Blocked(c) ~> (callers[c].pc = "done")

\* the second half of C23: once an exchange has failed, every caller that
\* waits on it is resumed, and no longer waits on it
C23_FailureUnblocksWaiters ==
    \A c \in Callers : \A p \in 1..NumCallers :
        (/\ p \in DOMAIN promises
         /\ promises[p].status = "rejected"
         /\ Blocked(c)
         /\ callers[c].awaited # <<>>
         /\ callers[c].awaited[Len(callers[c].awaited)] = p)
            ~> ~(/\ Blocked(c)
                 /\ callers[c].awaited # <<>>
                 /\ callers[c].awaited[Len(callers[c].awaited)] = p)

(***************************************************************************)
(* The startup under StartupSpec.                                          *)
(***************************************************************************)
\* the file holds a token that expires more than the buffer from now
HoldsFreshToken ==
    /\ tokenFile.kind = "token"
    /\ tokenFile.accessToken # ""
    /\ tokenFile.expiresAt > now + ONE_MINUTE

\* the file holds no token: it is missing or invalid, or its token expires within
\* the buffer
HoldsNoFreshToken ==
    \/ tokenFile.kind # "token"
    \/ tokenFile.expiresAt <= now + ONE_MINUTE

C24_WitnessStale ==
    /\ boot.pc = "fetch"
    /\ tokenFile = TokenFile("cached", now + ONE_MINUTE)
    /\ exchangeCalls = 1

\* the startup made the exchange and wrote the new credential to the file
C24_WitnessExchanged ==
    /\ boot.pc = "done" /\ boot.source = "exchange"
    /\ exchangeCalls = 1
    /\ accessToken = "token"
    /\ tokenFile = TokenFile("token", expiresAt)

(***************************************************************************)
(* The middleware under AuthSpec.                                          *)
(***************************************************************************)
\* the step in which the middleware of request c calls the handler
HandlerStarts(c) == auth[c].outcome = "none" /\ auth'[c].outcome = "next"

\* the step in which the middleware of request c is done with the request
\* without calling the handler
Refused(c) == auth[c].outcome = "none" /\ auth'[c].outcome \notin {"none", "next"}

\* C25: a handler behind igdbAuth starts only if the credential is valid when
\* the middleware has checked it; a request whose ensureValidIgdbToken raised,
\* or left no valid credential, is answered 503 "IGDB service temporarily
\* unavailable" without the handler being run, and no error leaves the
\* middleware, so that the process keeps serving.
C25_HandlerOnlyWithValidCredential ==
    [][\A c \in Callers :
          /\ HandlerStarts(c) => isIgdbTokenValid /\ callers[c].result = "true"
          /\ (ContinuationPending(c) /\ auth'[c] # auth[c]
                 /\ (callers[c].result = "throw" \/ ~isIgdbTokenValid))
                => /\ auth'[c].outcome = "503"
                   /\ auth'[c].message = UNAVAILABLE
          /\ Refused(c) => auth'[c].outcome = "503"]_vars

\* a request was answered 503 after its refresh failed, and a later request
\* reached its handler
C25_Witness ==
    \E c, d \in Callers :
        /\ auth[c].outcome = "503" /\ callers[c].result = "throw"
        /\ auth[d].outcome = "next"
        /\ callers[d].epoch > callers[c].epoch

\* a request was answered 503 by the middleware's own check: the refresh brought
\* a credential, which the buffer makes unusable
C25_WitnessUnusable ==
    \E c \in Callers :
        /\ auth[c].outcome = "503" /\ callers[c].result = "false"
        /\ accessToken # ""

(***************************************************************************)
(* The user accounts under UsersSpec.                                      *)
(***************************************************************************)
\* the user documents that a step removes
DeletedUsers == {u \in users : \A v \in users' : v.id # u.id}

\* the step answers a request of the handler
Answered(handler) == userReply' # userReply /\ userReply'.handler = handler

\* C26: a user document is deleted only by a deleteUser request whose
\* authenticated caller is that same user (the user its token was signed for)
\* or an admin; a request of any other caller who is no admin is answered 403
\* and leaves the users collection unchanged.
C26_DeletedOnlyBySelfOrAdmin ==
    [][ /\ \A u \in DeletedUsers :
               /\ userReply'.handler = "deleteUser"
               /\ userReply'.status = 200
               /\ userReply'.username = u.username
               /\ \/ userReply'.jwtPayload.sub = u.id
                  \/ userReply'.jwtPayload.isadmin
        /\ (/\ Answered("deleteUser")
            /\ ~userReply'.jwtPayload.isadmin
            /\ \E u \in findByUsername(users, userReply'.username) :
                   u.id # userReply'.jwtPayload.sub)
               => userReply'.status = 403 /\ users' = users
      ]_vars

\* the same with the caller taken for the user whose name its token carries:
\* what deleteUser compares
C26_DeletedOnlyByNameOrAdmin ==
    [][ /\ \A u \in DeletedUsers :
               /\ userReply'.handler = "deleteUser"
               /\ userReply'.status = 200
               /\ userReply'.username = u.username
               /\ \/ userReply'.jwtPayload.username = u.username
                  \/ userReply'.jwtPayload.isadmin
        /\ (/\ Answered("deleteUser")
            /\ userReply'.jwtPayload.username # userReply'.username
            /\ ~userReply'.jwtPayload.isadmin)
               => userReply'.status = 403 /\ users' = users
      ]_vars

\* a user who is no admin asked for the deletion of another user who exists,
\* and was answered 403
C26_Refused ==
    /\ userReply.handler = "deleteUser" /\ userReply.status = 403
    /\ ~userReply.jwtPayload.isadmin
    /\ \E u \in users : u.id = userReply.jwtPayload.sub
    /\ \E u \in users : u.username = userReply.username /\ u.id # userReply.jwtPayload.sub

\* a user deleted their own account
C26_DeletedSelf ==
    /\ userReply.handler = "deleteUser" /\ userReply.status = 200
    /\ ~userReply.jwtPayload.isadmin
    /\ userReply.jwtPayload.username = userReply.username
    /\ \A u \in users : u.id # userReply.jwtPayload.sub

\* an admin deleted the account of another user
C26_DeletedByAdmin ==
    /\ userReply.handler = "deleteUser" /\ userReply.status = 200
    /\ userReply.jwtPayload.isadmin
    /\ userReply.jwtPayload.username # userReply.username
    /\ userReply.username \in Usernames
    /\ \A u \in users : u.username # userReply.username

\* the user documents whose isadmin flag a step changes
FlagChanged == {u \in users : \E v \in users' : v.id = u.id /\ v.isadmin # u.isadmin}

\* the step answers a promoteUser request at its checks, before any updateOne
AnsweredAtCheck == Answered("promoteUser") /\ promoting' = promoting

\* C27: the isadmin flag of a user changes only through a promoteUser request of
\* an authenticated admin on a target that is not yet an admin, and only from
\* false to true; a caller who is no admin is answered 403 and a target that is
\* already an admin 400, both with the users collection unchanged.
C27_FlagOnlyRaisedByAdmin ==
    [][ /\ \A u \in FlagChanged :
               /\ ~u.isadmin
               /\ userReply'.handler = "promoteUser"
               /\ userReply'.status = 200
               /\ userReply'.username = u.username
               /\ userReply'.jwtPayload.isadmin
        /\ (Answered("promoteUser") /\ ~userReply'.jwtPayload.isadmin)
               => userReply'.status = 403 /\ users' = users
        /\ (/\ AnsweredAtCheck
            /\ userReply'.jwtPayload.isadmin
            /\ \E u \in findByUsername(users, userReply'.username) : u.isadmin)
               => userReply'.status = 400 /\ users' = users
      ]_vars

\* an admin promoted a registered user, who was no admin, and somebody who is
\* no admin had been refused before
C27_Witness ==
    /\ userReply.handler = "promoteUser" /\ userReply.status = 200
    /\ userReply.jwtPayload.isadmin
    /\ \E u \in users : u.username = userReply.username /\ u.isadmin /\ u.id > 1
    /\ \E t \in tokens : ~t.isadmin

\* a caller who is no admin was answered 403
C27_WitnessRefused ==
    /\ userReply.handler = "promoteUser" /\ userReply.status = 403
    /\ ~userReply.jwtPayload.isadmin
    /\ \E u \in users : u.username = userReply.username /\ ~u.isadmin

\* an admin asked for the promotion of an admin and was answered 400
C27_WitnessAlreadyAdmin ==
    /\ userReply.handler = "promoteUser" /\ userReply.status = 400
    /\ userReply.jwtPayload.isadmin
    /\ \E u \in users : u.username = userReply.username /\ u.isadmin

(***************************************************************************)
(* The configuration under ConfigSpec.                                     *)
(***************************************************************************)
\* the step is a call of setEnv; its arguments are in lastSetEnv'
SetEnvCalled == lastGetEnv' = lastGetEnv /\ lastSetEnv'.called

\* the step is a call of getEnv; its arguments and result are in lastGetEnv'
GetEnvCalled == env' = env /\ lastSetEnv' = lastSetEnv /\ lastGetEnv'.called

Blank(s) == trim(s) = <<>>

\* C28: after setEnv(key, value) with a key and a value that are not blank,
\* getEnv(key), with or without a default, returns value, exactly as it was
\* passed, and a getEnv that follows the setEnv of its key did return it;
\* setEnv with a blank key or a blank value leaves the environment unchanged.
C28_SetEnvThenGetEnv ==
    [][ /\ SetEnvCalled =>
               IF ~Blank(lastSetEnv'.key) /\ ~Blank(lastSetEnv'.value)
               THEN \A argument \in DefaultArguments :
                        getEnv(env', lastSetEnv'.key, argument) = lastSetEnv'.value
               ELSE env' = env
        /\ (/\ GetEnvCalled
            /\ lastSetEnv.called
            /\ lastGetEnv'.key = lastSetEnv.key
            /\ ~Blank(lastSetEnv.key) /\ ~Blank(lastSetEnv.value))
               => lastGetEnv'.value = lastSetEnv.value
      ]_vars

\* getEnv returned, in place of the default it was given, the value with a
\* trailing space that the setEnv before it had stored under a key with a
\* leading space
C28_Witness ==
    /\ lastSetEnv.called /\ lastGetEnv.called
    /\ lastSetEnv.key = <<" ", "K">> /\ lastSetEnv.value = <<"v", " ">>
    /\ lastGetEnv.key = lastSetEnv.key
    /\ lastGetEnv.defaultValue = Default(<<"w">>)
    /\ lastGetEnv.value = <<"v", " ">>
    /\ ~env[<<"K">>].set

\* setEnv was called with a blank value for a variable that is set, and the
\* variable kept its value
C28_WitnessBlank ==
    /\ lastSetEnv.called
    /\ lastSetEnv.key = <<"K">> /\ lastSetEnv.value = <<" ">>
    /\ env[<<"K">>] = IsSet(<<"w">>)

\* C29: getEnv(key, default) returns the default when the variable is not set,
\* and the empty string when the variable is not set and no default is given.
C29_DefaultWhenNotSet ==
    [][(GetEnvCalled /\ ~env[lastGetEnv'.key].set)
          => lastGetEnv'.value =
                 IF lastGetEnv'.defaultValue.given
                 THEN lastGetEnv'.defaultValue.value
                 ELSE <<>>]_vars

\* getEnv returned the default it was given for a variable that is not set,
\* while another variable is set
C29_Witness ==
    /\ lastGetEnv.called
    /\ lastGetEnv.key = <<"L">> /\ ~env[<<"L">>].set
    /\ lastGetEnv.defaultValue = Default(<<"w">>)
    /\ lastGetEnv.value = <<"w">>
    /\ env[<<"K">>].set

\* getEnv returned the empty string for a variable that is not set, no default
\* being given
C29_WitnessNoDefault ==
    /\ lastGetEnv.called
    /\ lastGetEnv.key = <<"L">> /\ ~env[<<"L">>].set
    /\ ~lastGetEnv.defaultValue.given
    /\ lastGetEnv.value = <<>>

(***************************************************************************)
(* Store conflicts under InterleavedSpec.                                  *)
(***************************************************************************)
\* the submission of session s was answered 500: a storage call raised, which
\* here is the duplicate key of insertMany
Conflicted(s) == sessions[s].pc = "done" /\ sessions[s].status = 500

\* C30: when two submissions for the same (user, media) tuple race so that one
\* of them hits a store conflict, that submission is retried at least once,
\* with a second read of the existing rows, before the error is returned to
\* its caller.
C30_ConflictRetriedBeforeError ==
    \A s \in Sessions : Conflicted(s) => sessions[s].finds >= 2

\* what the code does: the submission that hits the conflict has read the
\* existing rows once, and the rows its insertMany met are those of the other
\* submission of the same tuple
C30_ConflictSurfacesAtOnce ==
    \A s \in Sessions :
        Conflicted(s) =>
            /\ sessions[s].finds = 1
            /\ \E t \in Sessions \ {s} : sessions[t].userId = sessions[s].userId

(***************************************************************************)
(* A submission handled alone after interleaved ones, under ReconcileSpec. *)
(***************************************************************************)
\* session s carried a request that arrived after all others were answered,
\* and the request went through processUserTags and was answered 200
CompletedAlone(s) ==
    /\ sessions[s].follows # "none"
    /\ sessions[s].pc = "done"
    /\ sessions[s].status = 200

\* C31: when interleaved recomputes left a stale mediaTags record, the next
\* createTags submission to that media item that runs to completion with no
\* other request between its steps makes the record's tags equal to the
\* distinct tags of the live contribution rows again.
C31_NextSubmissionReconciles ==
    \A s \in Sessions :
        CompletedAlone(s) =>
            RecordedTagsOf(sessions[s].gameId)
                = distinctTags(userContributions, sessions[s].gameId)

\* the record was stale when the request arrived, the two interleaved
\* submissions were of different users, and the request was answered 200
C31_Witness ==
    \E s \in Sessions : \E t \in Sessions \ {s} :
        /\ CompletedAlone(s)
        /\ sessions[s].follows = "stale"
        /\ sessions[t].follows = "none"
        /\ sessions[t].status = 200
        /\ RecordedTagsOf(sessions[s].gameId) # {}

(***************************************************************************)
(* The guard slot under GuardSpec.                                         *)
(***************************************************************************)
\* the refreshes started by ensureValidIgdbToken that have not settled
PendingRefreshes == {p \in DOMAIN promises : promises[p].status = "pending"}

\* C32: once every refresh started by ensureValidIgdbToken has settled, the
\* slot tokenRefreshPromise is null, and the slot is never null while a refresh
\* is still in flight.
C32_SlotNullExactlyWhenAllSettled ==
    (tokenRefreshPromise = NoPromise) <=> (PendingRefreshes = {})

\* the first half of C32 alone: with every refresh settled the slot is null
C32_SlotNullOnceAllSettled ==
    PendingRefreshes = {} => tokenRefreshPromise = NoPromise

\* the second half of C32 alone: a refresh in flight keeps the slot occupied
C32_SlotHeldWhileInFlight ==
    PendingRefreshes # {} => tokenRefreshPromise # NoPromise

\* a call made when every refresh has settled and the credential is not
\* usable starts a new refresh: a refresh has failed, and a caller that awaited
\* none before is at line 125 of one it started afterwards
C32_NewRefreshAfterSettled ==
    \E c \in Callers :
        /\ callers[c].pc = "line125"
        /\ callers[c].epoch >= 1
        /\ Len(callers[c].awaited) = 1
        /\ tokenRefreshPromise = callers[c].awaited[1]

TouchedRows ==
    (userContributions' \ userContributions) \cup (userContributions \ userContributions')

TouchedRecords == (mediaTags' \ mediaTags) \cup (mediaTags \ mediaTags')

\* C34: the media item that getTags and createTags read and write is the one
\* named in the request path: a request to /tags/X touches only documents
\* whose mediaSlug is X, and getTags of /tags/X reads the record and the rows
\* of X.
C34_RequestTouchesOnlyItsPath ==
    [][/\ \A req \in CountedRequests :
              CreateTags(req) =>
                  /\ \A d \in TouchedRows : d.mediaSlug = req.id
                  /\ \A m \in TouchedRecords : m.mediaSlug = req.id
       /\ \A query \in TagQueries :
              GetTags(query) => lastTags'.slug = query.id]_vars

\* what the code does instead: every document, whatever the path of the request
\* that wrote it, carries the value of param('slug'), and getTags reads under
\* that value
C34_AllRequestsShareOneMedia ==
    /\ \A d \in userContributions : d.mediaSlug = Undefined
    /\ \A m \in mediaTags : m.mediaSlug = Undefined
    /\ lastTags.slug = Undefined

(***************************************************************************)
(* Storing a key the cache already holds, under CacheSpec.                 *)
(***************************************************************************)
\* the step stores the catalog's data for a key that is in the handler's cache
Restores(handler) == Stores(handler) /\ MapHas(CacheOf(handler), lastReply'.key)

AtCapacity(handler) == Len(CacheOf(handler)) >= CapacityOf(handler)

C35_WitnessFirst ==
    /\ upstreamCalls = MAX_SEARCH_CACHE_SIZE + 1
    /\ fetching = EmptyBag
    /\ now = CACHE_TTL
    /\ Len(searchCache) = MAX_SEARCH_CACHE_SIZE
    /\ searchCache[1].time = 0
    /\ searchCache[Len(searchCache)].time = now
    /\ lastReply.handler = "search" /\ lastReply.status = 200 /\ lastReply.fetched
    /\ lastReply.key = searchCache[Len(searchCache)].key

(***************************************************************************)
(* A submission that ends with an internal error, under FailureSpec.       *)
(***************************************************************************)
\* the submission of session s was answered 500
InternalError(s) == sessions[s].pc = "done" /\ sessions[s].status = 500

\* the stores a submission can meet under FailureSpec
InitialStores ==
    {[rows |-> StoreAfter(tags),
      records |-> RecomputeMediaTags({}, StoreAfter(tags), Undefined, 0)] :
         tags \in EarlierSubmissions}

\* C36: a createTags submission that ends with an internal error (500)
\* because a storage step of processUserTags or of the aggregate recompute
\* failed leaves the user's contribution rows as they were before the request
\* and leaves the tags of the mediaTags record equal to the distinct tags of
\* the live contribution rows.
C36_FailedSubmissionLeavesStoreAsItWas ==
    \A s \in Sessions :
        InternalError(s) =>
            /\ \E store \in InitialStores :
                   RowsOfUser(userContributions, sessions[s].userId)
                       = RowsOfUser(store.rows, sessions[s].userId)
            /\ RecordedTagsOf(sessions[s].gameId)
                   = distinctTags(userContributions, sessions[s].gameId)

\* what does hold: a submission whose find fails has written nothing
C36_FailedFindWritesNothing ==
    \A s \in Sessions :
        (InternalError(s) /\ sessions[s].finds = 0) =>
            \E store \in InitialStores :
                userContributions = store.rows /\ mediaTags = store.records

(***************************************************************************)
(* The order of the startup, under MainSpec.                               *)
(***************************************************************************)
\* C37: in main the HTTP server starts listening only after the MongoDB
\* connection, the IGDB connection and the index creation have succeeded;
\* when any of them fails, shutdown happens and startServer is never reached.
C37_ServerOnlyAfterAllSucceeded ==
    /\ main.started => (main.mongo = "ok" /\ boot.pc = "done" /\ ~main.caught)
    /\ main.caught => (main.closing > 0 \/ main.pc = "exited")

\* the half of C37 that holds: a failure of a connection, of the index
\* creation or of the validation is followed by a call of closeApp(1)
C37_FailureCallsCloseApp ==
    /\ main.caught => (main.closing > 0 \/ main.pc = "exited")
    /\ (main.mongo = "failed" \/ boot.pc = "failed") => main.pc # "createIndexes"
    /\ main.exitCode \in {NoExit, 1}

\* when nothing has failed startServer is reached only after both connections,
\* the index creation and the validation
C37_NoFailureThenOrdered ==
    (main.started /\ ~main.caught) => (main.mongo = "ok" /\ boot.pc = "done")

\* the server listens although the MongoDB connection failed
C37_ListeningAfterFailure ==
    main.listening /\ main.mongo = "failed" /\ main.caught

(***************************************************************************)
(* The rows of userContributions are unique per user, media item and tag.  *)
(***************************************************************************)
\* the rows of a user for a media item that carry the tag
RowsOfTag(u, slug, tag) ==
    {d \in userContributions :
        d.userId = u /\ d.mediaSlug = slug /\ d.mediaType = VIDEO_GAME /\ d.tag = tag}

\* C38: no two live userContributions rows share the same (userId, mediaSlug,
\* mediaType, tag), at any moment of any interleaving of submissions, among them
\* submissions whose tag list repeats a tag or differs from another only by
\* surrounding whitespace.
C38_NoTwoRowsShareTheTuple ==
    \A d, e \in userContributions :
        (/\ d.userId = e.userId /\ d.mediaSlug = e.mediaSlug
         /\ d.mediaType = e.mediaType /\ d.tag = e.tag) => d = e

\* both submissions carried the tag story, one of them as the repeating list,
\* and both reached their insertMany with it: one was answered 200, the other
\* was refused by the unique index, and one row carries the tag
C38_Witness ==
    \E s, t \in Sessions :
        /\ sessions[s].pc = "done" /\ sessions[s].status = 200
        /\ sessions[s].tags = <<story>>
        /\ sessions[t].pc = "done" /\ sessions[t].status = 500
        /\ \E i \in 1..Len(sessions[t].plan.contributionsToInsertFinal) :
               sessions[t].plan.contributionsToInsertFinal[i].tag = story
        /\ sessions[s].time # sessions[t].time
        /\ Cardinality(RowsOfTag("A", Undefined, story)) = 1

\* the repeating list handled alone leaves one row for its tag
C38_WitnessRepeated ==
    \E s, t \in Sessions :
        /\ sessions[s].pc = "done" /\ sessions[s].status = 200
        /\ sessions[s].tags = <<story>>
        /\ sessions[t].pc = "idle"
        /\ Cardinality(RowsOfTag("A", Undefined, story)) = 1
        /\ \A d \in RowsOfTag("A", Undefined, story) : d.updated_at = sessions[s].time

(***************************************************************************)
(* deleteUser and the tags of the deleted user, under AccountsSpec.        *)
(***************************************************************************)
\* the rows whose user has no users document
OrphanRows ==
    {d \in userContributions : \A u \in users : d.userId # SubKeys[u.id]}

RowsWithTag(coll, slug, tag) ==
    {d \in coll : d.mediaSlug = slug /\ d.mediaType = VIDEO_GAME /\ d.tag = tag}

\* C39: deleting a user removes only the users document: a step that removes a
\* users document changes no userContributions row and no mediaTags record,
\* and a getTags answer counts every row of each tag it lists, the rows of
\* users without a users document among them, and lists each tag of the
\* record that such a row carries.
C39_DeleteUserLeavesTagsAlone ==
    [][/\ (\E u \in users : u \notin users')
            => (userContributions' = userContributions /\ mediaTags' = mediaTags)
       /\ (lastTags' # lastTags /\ lastTags'.status = 200)
            => /\ \A i \in 1..Len(lastTags'.data) :
                      lastTags'.data[i].count =
                          Cardinality(RowsWithTag(userContributions, lastTags'.slug,
                                                  lastTags'.data[i].tag))
               /\ \A d \in OrphanRows :
                      (/\ d.mediaSlug = lastTags'.slug
                       /\ \E m \in mediaTags : m.mediaSlug = d.mediaSlug /\ d.tag \in m.tags)
                          => \E i \in 1..Len(lastTags'.data) :
                                 lastTags'.data[i].tag = d.tag]_vars

\* ann, the user 2, tagged the media item and was deleted; the name was
\* registered again, by the user 3, who submitted the same tag: getTags then
\* answered a count of 3 for it, the row of the deleted user being one of the
\* three
C39_Witness ==
    /\ \E u \in users : u.id = 3 /\ u.username = "ann"
    /\ \A u \in users : u.id # 2
    /\ \E d \in OrphanRows : d.userId = SubKeys[2] /\ d.tag = story
    /\ lastTags.status = 200
    /\ \E i \in 1..Len(lastTags.data) :
           lastTags.data[i].tag = story /\ lastTags.data[i].count = 3

\* right after the deletion: the answer of deleteUser, no document, the rows
C39_WitnessDeleted ==
    /\ userReply.handler = "deleteUser" /\ userReply.status = 200
    /\ userReply.username = "ann"
    /\ findByUsername(users, "ann") = {}
    /\ \E d \in OrphanRows : d.userId = SubKeys[2]
    /\ \E m \in mediaTags : \E d \in OrphanRows : d.tag \in m.tags

=========================================================================
